---- MODULE Spec2Model ----
(***************************************************************************)
(* Hierarchical B-spline mesh and space bookkeeping of pyiga               *)
(* (src/pyiga/hierarchical.py): HMesh keeps, per level, the active and the *)
(* deactivated cells; HSpace keeps, per level, the active and deactivated  *)
(* basis functions and grades the marking by the disparity.                *)
(*                                                                         *)
(* Cells and functions are dim-tuples of naturals.  Levels count from 0,   *)
(* so the per-level Python lists are functions on 0..numlevels-1.  A       *)
(* marked dict is a function from its keys (levels) to sets of cells.      *)
(*                                                                         *)
(* The cached index arrays of HSpace (its __ravel_* and __index_*          *)
(* attributes) are not part of the state: no operation below reads them.   *)
(* Matrices carry integer numerators over a common denominator, so that    *)
(* the dyadic entries of the prolongations are represented exactly.        *)
(***************************************************************************)
EXTENDS Integers, Sequences, FiniteSets, TLC

\* ---------------------------------------------------------------- bounds
MaxRefines == 2     \* refine-family calls in one behaviour
MaxMarked == 2      \* cells named by one marked dict
MaxRequested == 2   \* cells named by one query
\* the levels a marked dict may name, and the levels the hierarchy can then hold
MarkLevels == 0..1
MeshLevels == MarkLevels \cup {lv + 1 : lv \in MarkLevels}

\* np.inf, the default disparity: larger than every level
Inf == 1000

\* constructor arguments the behaviours start from
Dims == {1, 2}
Degrees == {1, 2}
Disparities == {1, Inf}
\* kv.numspans of the coarse knot vectors (the same on every axis)
CoarseSpans(dm) == IF dm = 1 THEN 2 ELSE 1
\* test_hspace: _make_hs(p=3, n=3), the space HSpace((kv, kv))
HSpaceTestSpace == <<2, 3, 3>>
\* test_incidence: make_knots(2, 0.0, 1.0, 4), the space HSpace((kv,))
IncidenceTestSpace == <<1, 2, 4>>
TestSpaces == {HSpaceTestSpace, IncidenceTestSpace}
\* the spaces the hierarchy can start from: (dim, degree, coarse numspans)
Spaces == {<<dm, p, CoarseSpans(dm)>> : dm \in Dims, p \in Degrees} \cup TestSpaces

VARIABLES
    dim,          \* TPMesh.dim
    deg,          \* degree of the (open, uniform) knot vectors
    spans,        \* kv.numspans of the coarse knot vectors
    disparity,    \* HSpace.disparity
    numlevels,    \* len(hmesh.meshes)
    numP,         \* len(hmesh.P)
    active,       \* hmesh.active
    deactivated,  \* hmesh.deactivated
    actfun,       \* HSpace.actfun
    deactfun,     \* HSpace.deactfun
    nrefines,     \* number of refine-family calls made
    cache,        \* the private caches of HSpace (__ravel_actfun, ...)
    virt,         \* the virtual hierarchy the caller holds, if any
    call          \* the call that has just run, with its arguments and results

vars == <<dim, deg, spans, disparity, numlevels, numP, active, deactivated,
          actfun, deactfun, nrefines, cache, virt, call>>

\* ------------------------------------------------------------ arithmetic
Min2(a, b) == IF a <= b THEN a ELSE b
Max2(a, b) == IF a >= b THEN a ELSE b
SetMin(S) == CHOOSE x \in S : \A y \in S : x <= y
SetMax(S) == CHOOSE x \in S : \A y \in S : x >= y

\* itertools.product of a tuple of ranges, as a set of tuples
RECURSIVE Product(_)
Product(rs) ==
    IF rs = <<>> THEN {<<>>}
    ELSE {<<a>> \o t : a \in Head(rs), t \in Product(Tail(rs))}

\* dict.get(k, empty) and dict[k] = v
Get(m, k) == IF k \in DOMAIN m THEN m[k] ELSE {}
Put(m, k, v) == [x \in DOMAIN m \cup {k} |-> IF x = k THEN v ELSE m[x]]

\* ------------------------------------------------ knot vectors (bspline)
\* kv.numspans on level lv: refine() bisects every span
KvNumSpans(n0, lv) == n0 * 2^lv
\* kv.numdofs on level lv, for degree p
KvNumDofs(n0, p, lv) == KvNumSpans(n0, lv) + p
\* kv.mesh_support_idx_all()[j]: first cell and one past the last cell of function j
MeshSupportIdx(n0, p, lv, j) == <<Max2(0, j - p), Min2(j + 1, KvNumSpans(n0, lv))>>

\* ---------------------------------------------------------------- TPMesh
\* _compute_supported_functions: first and one past the last function on cell k
ComputeSupportedFunctions(n0, p, lv, k) ==
    LET js == {j \in 0..(KvNumDofs(n0, p, lv) - 1) :
                  k \in MeshSupportIdx(n0, p, lv, j)[1]..(MeshSupportIdx(n0, p, lv, j)[2] - 1)}
    IN  <<SetMin(js \cup {KvNumDofs(n0, p, lv)}), SetMax(js \cup {0}) + 1>>

\* the meshes the hierarchy can hold: (dim, degree, coarse numspans, level)
MeshKeys == {<<sp[1], sp[2], sp[3], lv>> : sp \in Spaces, lv \in MeshLevels}

\* TPMesh.cells() and TPMesh.functions()
TPCells(dm, n0, lv) == Product([d \in 1..dm |-> 0..(KvNumSpans(n0, lv) - 1)])
TPFunctions(dm, p, n0, lv) == Product([d \in 1..dm |-> 0..(KvNumDofs(n0, p, lv) - 1)])

\* TPMesh.meshsupp and TPMesh.suppfunc are computed once per mesh; so are,
\* here, the tensor-product ranges support() and supported_in() build from
\* them for one function jj or one cell kk of the mesh key
\* the meshes of one more level, for the one-dimensional spaces
DeepKeys ==
    {<<1, p, CoarseSpans(1), SetMax(MeshLevels) + 1>> : p \in Degrees}
    \cup {IncidenceTestSpace \o <<SetMax(MeshLevels) + 1>>}
FunctionKeys == UNION {{<<key, jj>> : jj \in TPFunctions(key[1], key[2], key[3], key[4])} : key \in MeshKeys \cup DeepKeys}
CellKeys == UNION {{<<key, kk>> : kk \in TPCells(key[1], key[3], key[4])} : key \in MeshKeys \cup DeepKeys}
SupportOf ==
    [x \in FunctionKeys |->
        Product([d \in 1..x[1][1] |->
            MeshSupportIdx(x[1][3], x[1][2], x[1][4], x[2][d])[1]..
                (MeshSupportIdx(x[1][3], x[1][2], x[1][4], x[2][d])[2] - 1)])]
SupportedInOf ==
    [x \in CellKeys |->
        Product([d \in 1..x[1][1] |->
            ComputeSupportedFunctions(x[1][3], x[1][2], x[1][4], x[2][d])[1]..
                (ComputeSupportedFunctions(x[1][3], x[1][2], x[1][4], x[2][d])[2] - 1)])]

Cells(lv) == TPCells(dim, spans, lv)
Functions(lv) == TPFunctions(dim, deg, spans, lv)

\* TPMesh.support: the cells where any of the given functions does not vanish
Support(lv, indices) == UNION {SupportOf[<<<<dim, deg, spans, lv>>, jj>>] : jj \in indices}
\* TPMesh.supported_in: the functions whose support meets the given cells
SupportedIn(lv, cells) == UNION {SupportedInOf[<<<<dim, deg, spans, lv>>, kk>>] : kk \in cells}

\* ---------------------------------------------------- the caches of HSpace
\* an attribute that has not been assigned yet, the value None, and a value
\* that is a tuple or list with an entry per level
Unset == [is |-> "unset"]
None == [is |-> "None"]
Cached(value) == [is |-> "cached", value |-> value]

\* the caches after HSpace.__init__: _clear_cache has run, and nothing has
\* assigned __ravel_actfun, __ravel_deactfun or __ravel_actdeactfun
\* no virtual hierarchy has been asked for
NoVirtual == [kind |-> "none", h |-> <<>>]

NoCache ==
    [ravel_actfun |-> Unset, ravel_deactfun |-> Unset, ravel_actdeactfun |-> Unset,
     index_dirichlet |-> None, ravel_dirichlet |-> None,
     ravel_global |-> None, smooth_dirichlet |-> None]

\* _clear_cache
ClearCache(c) ==
    [c EXCEPT !.index_dirichlet = None, !.ravel_global = None,
              !.ravel_dirichlet = None, !.smooth_dirichlet = None]

\* ----------------------------------------------------------------- HMesh
\* HMesh.cell_children (the level assertion is CellChildrenOk)
CellChildrenOk(lv, L) == 0 <= lv /\ lv < L - 1
CellChildren(cells) ==
    UNION {Product([d \in 1..dim |-> (2 * c[d])..(2 * (c[d] + 1) - 1)]) : c \in cells}

\* the level assertion of cell_parent with its lower bound off by one
CellParentOkAboveOne(lv, L) == 1 < lv /\ lv < L
\* HMesh.cell_parent (the level assertion is CellParentOk)
CellParentOk(lv, L) == 1 <= lv /\ lv < L
\* cell_parent rounding the halved index up instead of down
CellParentRoundUp(cells) == {[d \in 1..dim |-> (c[d] + 1) \div 2] : c \in cells}
CellParent(cells) == {[d \in 1..dim |-> c[d] \div 2] : c \in cells}

\* HMesh.cell_grandparent for 0 <= targetlv < lv
RECURSIVE CellGrandparent(_, _, _)
CellGrandparent(lv, cells, targetlv) ==
    IF lv - targetlv = 1 THEN CellParent(cells)
    ELSE CellGrandparent(lv - 1, CellParent(cells), targetlv)

\* the failed assertion of a query
Failed == [status |-> "AssertionError"]
\* the value a query returns
Returned(value) == [status |-> "returned", value |-> value]

\* `not targetlv`: the argument is None, written <<>>, or the level 0
NotTarget(targetlv) == targetlv = <<>> \/ targetlv = <<0>>

\* HMesh.cell_babys(lv, cells, targetlv) with its assertions; targetlv is
\* <<>> for None and <<t>> for the level t
RECURSIVE CellBabys(_, _, _, _)
CellBabys(lv, cells, targetlv, L) ==
    LET target == IF NotTarget(targetlv) THEN L - 1 ELSE targetlv[1]
    IN  IF ~CellChildrenOk(lv, L) THEN Failed
        ELSE IF ~(lv < target /\ target < L) THEN Failed
        ELSE IF target - lv = 1 THEN Returned(CellChildren(cells))
        ELSE CellBabys(lv + 1, CellChildren(cells), targetlv, L)

\* HMesh.cell_grandparent(lv, cells, targetlv) with its assertions
RECURSIVE CellGrandparentOf(_, _, _, _)
CellGrandparentOf(lv, cells, targetlv, L) ==
    LET target == IF NotTarget(targetlv) THEN 0 ELSE targetlv[1]
    IN  IF ~CellParentOk(lv, L) THEN Failed
        ELSE IF ~(0 <= target /\ target < lv) THEN Failed
        ELSE IF lv - target = 1 THEN Returned(CellParent(cells))
        ELSE CellGrandparentOf(lv - 1, CellParent(cells), targetlv, L)

\* len(hmesh.P) once the hierarchy has L levels: add_level appends one
\* prolongation tuple with every mesh it appends
StoredP(L) == numP + (L - numlevels)

\* one per-level list with set() appended
AppendEmpty(sets, n) == [lv \in 0..n |-> IF lv < n THEN sets[lv] ELSE {}]

\* HSpace._add_level: hmesh.add_level appends a mesh, two empty cell sets
\* and a prolongation tuple, then two empty function sets are appended
AddLevel(h) ==
    [numlevels |-> h.numlevels + 1,
     active |-> AppendEmpty(h.active, h.numlevels),
     deactivated |-> AppendEmpty(h.deactivated, h.numlevels),
     actfun |-> AppendEmpty(h.actfun, h.numlevels),
     deactfun |-> AppendEmpty(h.deactfun, h.numlevels),
     P |-> h.P + 1]

\* _ensure_levels with `if` in place of `while`
EnsureLevelsOnce(h, L) == IF h.numlevels < L THEN AddLevel(h) ELSE h

\* HSpace._ensure_levels: while self.numlevels < L: self._add_level()
RECURSIVE EnsureLevelsLoop(_, _)
EnsureLevelsLoop(h, L) == IF h.numlevels < L THEN EnsureLevelsLoop(AddLevel(h), L) ELSE h

\* ensure_levels adding a level more than asked for
EnsureLevelsOneMore(sets, L) ==
    [lv \in 0..Max2(L, numlevels) |-> IF lv \in DOMAIN sets THEN sets[lv] ELSE {}]

\* ensure_levels / add_level on one per-level list: new levels start empty
EnsureLevels(sets, L) ==
    [lv \in 0..(Max2(L, numlevels) - 1) |-> IF lv \in DOMAIN sets THEN sets[lv] ELSE {}]

\* HMesh.refine with the children assigned to, not added to, the next level
RECURSIVE HMeshRefineLoopAssign(_, _, _, _, _, _)
HMeshRefineLoopAssign(lv, L, marked, act, deact, newc) ==
    IF lv >= L - 1
    THEN [active |-> act, deactivated |-> deact, new_cells |-> newc]
    ELSE LET cells == Get(marked, lv)
             children == CellChildren(cells)
         IN  HMeshRefineLoopAssign(lv + 1, L, marked,
                 [act EXCEPT ![lv] = @ \ cells, ![lv + 1] = children],
                 [deact EXCEPT ![lv] = @ \cup cells],
                 Put(newc, lv + 1, children))

\* HMesh.refine: the loop over lv = 0 .. L-2, in order
RECURSIVE HMeshRefineLoop(_, _, _, _, _, _)
HMeshRefineLoop(lv, L, marked, act, deact, newc) ==
    IF lv >= L - 1
    THEN [active |-> act, deactivated |-> deact, new_cells |-> newc]
    ELSE LET cells == Get(marked, lv)
             children == CellChildren(cells)
         IN  HMeshRefineLoop(lv + 1, L, marked,
                 [act EXCEPT ![lv] = @ \ cells, ![lv + 1] = @ \cup children],
                 [deact EXCEPT ![lv] = @ \cup cells],
                 Put(newc, lv + 1, children))

HMeshRefine(L, marked, act, deact) ==
    HMeshRefineLoop(0, L, marked, act, deact, <<>>)

\* _TP_to_HMesh_cells_up: the while loop.  When the level assertion of
\* cell_children fails the exception is dropped and the loop goes on with
\* the same work set, for ever unless that set is empty (loops)
RECURSIVE CellsUpLoop(_, _, _)
CellsUpLoop(aux_lv, aux_cells, out) ==
    IF aux_cells = {} THEN [out |-> out, loops |-> FALSE]
    ELSE LET found == aux_cells \cap active[aux_lv]
             rest == aux_cells \ active[aux_lv]
         IN  IF CellChildrenOk(aux_lv, numlevels)
             THEN CellsUpLoop(aux_lv + 1, CellChildren(rest), Put(out, aux_lv, found))
             ELSE IF rest = {}
                  THEN [out |-> Put(out, aux_lv, found), loops |-> FALSE]
                  ELSE [out |-> Put(out, aux_lv, {}), loops |-> TRUE]

\* _TP_to_HMesh_cells_down: the same loop towards the parents
RECURSIVE CellsDownLoop(_, _, _)
CellsDownLoop(aux_lv, aux_cells, out) ==
    IF aux_cells = {} THEN [out |-> out, loops |-> FALSE]
    ELSE LET found == aux_cells \cap active[aux_lv]
             rest == aux_cells \ active[aux_lv]
         IN  IF CellParentOk(aux_lv, numlevels)
             THEN CellsDownLoop(aux_lv - 1, CellParent(rest), Put(out, aux_lv, found))
             ELSE IF rest = {}
                  THEN [out |-> Put(out, aux_lv, found), loops |-> FALSE]
                  ELSE [out |-> Put(out, aux_lv, {}), loops |-> TRUE]

\* _combine_HMesh_cells: the union of two dicts of cell sets
CombineHMeshCells(cellsA, cellsB) ==
    [lv \in DOMAIN cellsA \cup DOMAIN cellsB |-> Get(cellsA, lv) \cup Get(cellsB, lv)]

\* _clean_Hmesh_cells: the dict without its empty levels
CleanHMeshCells(cells) ==
    [lv \in {l \in DOMAIN cells : cells[l] # {}} |-> cells[lv]]

\* _TP_to_HMesh_cells for an allocated level lv
TPToHMeshCells(lv, cells) ==
    LET represented == active[lv] \cup deactivated[lv]
        out_up == CellsUpLoop(lv, cells \cap represented, <<>>)
        out_down == CellsDownLoop(lv, cells \ represented, <<>>)
    IN  [out |-> CombineHMeshCells(out_down.out, out_up.out),
         loops |-> out_up.loops \/ out_down.loops]

\* HMesh_cells: the loop over the keys of marked, here in ascending order;
\* a level that is not allocated fails the assertion of _TP_to_HMesh_cells
RECURSIVE HMeshCellsLoop(_, _, _)
HMeshCellsLoop(keys, marked, out) ==
    IF keys = {} THEN [status |-> "returned", out |-> out]
    ELSE LET lv == SetMin(keys)
         IN  IF ~(0 <= lv /\ lv < numlevels)
             THEN [status |-> "AssertionError", out |-> <<>>]
             ELSE LET r == TPToHMeshCells(lv, marked[lv])
                  IN  IF r.loops THEN [status |-> "loops", out |-> <<>>]
                      ELSE HMeshCellsLoop(keys \ {lv}, marked,
                               CleanHMeshCells(CombineHMeshCells(out, r.out)))

HMeshCells(marked) == HMeshCellsLoop(DOMAIN marked, marked, <<>>)

\* ---------------------------------------------------------------- HSpace
\* HSpace.cell_support_extension for 0 <= k <= l
CellSupportExtension(l, cells, k) ==
    LET aux == IF k = l THEN cells ELSE CellGrandparent(l, cells, k)
    IN  Support(k, SupportedIn(k, aux))

\* _cell_neighborhood without the intersection with the active cells
CellNeighborhoodAnyCell(l, cells, truncate, act) ==
    IF l - disparity < 0 THEN {}
    ELSE IF truncate
         THEN CellParent(CellSupportExtension(l, cells, l - disparity + 1))
         ELSE CellSupportExtension(l, cells, l - disparity)

\* HSpace._cell_neighborhood, on the active cells act
CellNeighborhood(l, cells, truncate, act) ==
    IF l - disparity < 0 THEN {}
    ELSE IF truncate
         THEN act[l - disparity] \cap
              CellParent(CellSupportExtension(l, cells, l - disparity + 1))
         ELSE act[l - disparity] \cap
              CellSupportExtension(l, cells, l - disparity)

\* HSpace._mark_recursive: the recursive call does not pass truncate on
RECURSIVE MarkRecursive(_, _, _, _)
MarkRecursive(l, marked, truncate, act) ==
    LET neighbors == CellNeighborhood(l, Get(marked, l), truncate, act)
    IN  IF neighbors # {}
        THEN MarkRecursive(l - disparity,
                 Put(marked, l - disparity, Get(marked, l - disparity) \cup neighbors),
                 FALSE, act)
        ELSE marked

\* HSpace.refine: for l in range(numlevels): _mark_recursive(l, marked, truncate)
RECURSIVE GradeLoop(_, _, _, _, _)
GradeLoop(l, L, marked, truncate, act) ==
    IF l >= L THEN marked
    ELSE GradeLoop(l + 1, L, MarkRecursive(l, marked, truncate, act), truncate, act)

Grade(L, marked, truncate, act) ==
    IF disparity < Inf THEN GradeLoop(0, L, marked, truncate, act) ELSE marked

\* HSpace._functions_to_deactivate, after the cells were refined
FunctionsToDeactivate(L, marked, act, af) ==
    [lv \in 0..(L - 1) |->
        IF Get(marked, lv) = {} THEN {}
        ELSE LET mfuncs == SupportedIn(lv, marked[lv]) \cap af[lv]
             IN  {f \in mfuncs : Support(lv, {f}) \cap act[lv] = {}}]

\* HSpace.refine activating every candidate, whatever its support
RECURSIVE RefineFunctionsLoopAll(_, _, _, _, _, _, _, _)
RefineFunctionsLoopAll(lv, L, mf, newc, act, deact, af, df) ==
    IF lv >= L - 1 THEN [actfun |-> af, deactfun |-> df]
    ELSE LET mfuncs == mf[lv]
             candidate_funcs == SupportedIn(lv + 1, newc[lv + 1]) \ af[lv + 1]
         IN  RefineFunctionsLoopAll(lv + 1, L, mf, newc, act, deact,
                 [af EXCEPT ![lv] = @ \ mfuncs, ![lv + 1] = @ \cup candidate_funcs],
                 [df EXCEPT ![lv] = @ \cup mfuncs])

\* HSpace.refine: the loop over lv = 0 .. L-2 that moves the functions
RECURSIVE RefineFunctionsLoop(_, _, _, _, _, _, _, _)
RefineFunctionsLoop(lv, L, mf, newc, act, deact, af, df) ==
    IF lv >= L - 1 THEN [actfun |-> af, deactfun |-> df]
    ELSE LET mfuncs == mf[lv]
             candidate_funcs == SupportedIn(lv + 1, newc[lv + 1]) \ af[lv + 1]
             fine_cells == act[lv + 1] \cup deact[lv + 1]
             newfuncs == {f \in candidate_funcs : Support(lv + 1, {f}) \subseteq fine_cells}
         IN  RefineFunctionsLoop(lv + 1, L, mf, newc, act, deact,
                 [af EXCEPT ![lv] = @ \ mfuncs, ![lv + 1] = @ \cup newfuncs],
                 [df EXCEPT ![lv] = @ \cup mfuncs])

\* the whole of HSpace.refine(marked, truncate) as a function of the state
HSpaceRefine(marked, truncate) ==
    LET L == Max2(numlevels, SetMax(DOMAIN marked) + 2)
        act0 == EnsureLevels(active, L)
        deact0 == EnsureLevels(deactivated, L)
        af0 == EnsureLevels(actfun, L)
        df0 == EnsureLevels(deactfun, L)
        graded == Grade(L, marked, truncate, act0)
        cellsres == HMeshRefine(L, graded, act0, deact0)
        mf == FunctionsToDeactivate(L, graded, cellsres.active, af0)
        funcs == RefineFunctionsLoop(0, L, mf, cellsres.new_cells,
                     cellsres.active, cellsres.deactivated, af0, df0)
    IN  [numlevels |-> L, marked |-> graded, new_cells |-> cellsres.new_cells,
         active |-> cellsres.active, deactivated |-> cellsres.deactivated,
         actfun |-> funcs.actfun, deactfun |-> funcs.deactfun]

\* ------------------------------------------------- the knot-vector engine
\* the knots of the open uniform knot vector with n spans and its bisection,
\* both in units of half a coarse span; i counts from 0
CoarseKnot(p, n, i) == 2 * Min2(Max2(i - p, 0), n)
FineKnot(p, n, i) == Min2(Max2(i - p, 0), 2 * n)

\* a common multiple of the knot differences that occur up to degree 2
OsloScale == 4

\* the knot-insertion recursion: OsloScale^k times the coefficient of the
\* fine B-spline i of degree k in the coarse B-spline j of degree k
RECURSIVE Oslo(_, _, _, _, _)
Oslo(p, n, j, k, i) ==
    IF k = 0
    THEN IF /\ CoarseKnot(p, n, j) <= FineKnot(p, n, i)
            /\ FineKnot(p, n, i) < CoarseKnot(p, n, j + 1)
         THEN 1 ELSE 0
    ELSE LET dl == CoarseKnot(p, n, j + k) - CoarseKnot(p, n, j)
             dr == CoarseKnot(p, n, j + k + 1) - CoarseKnot(p, n, j + 1)
         IN  (IF dl > 0
              THEN (FineKnot(p, n, i + k) - CoarseKnot(p, n, j))
                       * (OsloScale \div dl) * Oslo(p, n, j, k - 1, i)
              ELSE 0)
           + (IF dr > 0
              THEN (CoarseKnot(p, n, j + k + 1) - FineKnot(p, n, i + k))
                       * (OsloScale \div dr) * Oslo(p, n, j + 1, k - 1, i)
              ELSE 0)

\* a sparse matrix: its shape, the denominator of its entries, and for each
\* row the numerators of the stored entries by column
Matrix(nrows, ncols, den, rows) ==
    [nrows |-> nrows, ncols |-> ncols, den |-> den, rows |-> rows]

\* bspline.prolongation(k0, k1) for the knot vector of degree p with n spans
\* and its bisection
ProlongationKeys ==
    {<<sp[2], KvNumSpans(sp[3], lv)>> : sp \in Spaces, lv \in MeshLevels}
Prolongation ==
    [key \in ProlongationKeys |->
        LET p == key[1]
            n == key[2]
        IN  Matrix(2 * n + p, n + p, OsloScale^p,
                [i \in 0..(2 * n + p - 1) |->
                    [j \in {jj \in 0..(n + p - 1) : Oslo(p, n, jj, p, i) # 0} |->
                        Oslo(p, n, j, p, i)]])]

\* the Kronecker product of two sparse matrices
Kron(A, B) ==
    Matrix(A.nrows * B.nrows, A.ncols * B.ncols, A.den * B.den,
        [r \in 0..(A.nrows * B.nrows - 1) |->
            LET a == A.rows[r \div B.nrows]
                b == B.rows[r % B.nrows]
            IN  [c \in {ca * B.ncols + cb : ca \in DOMAIN a, cb \in DOMAIN b} |->
                    a[c \div B.ncols] * b[c % B.ncols]]])

\* utils.multi_kron_sparse of dm copies of P
RECURSIVE MultiKronSparse(_, _)
MultiKronSparse(P, dm) ==
    IF dm = 1 THEN P ELSE Kron(P, MultiKronSparse(P, dm - 1))

\* multi_kron_sparse(hmesh.P[lv]), the prolongation from level lv to lv + 1
LevelProlongation ==
    [key \in MeshKeys |->
        MultiKronSparse(Prolongation[<<key[2], KvNumSpans(key[3], key[4])>>], key[1])]

\* -------------------------------------------------- sparse matrix algebra
\* scipy.sparse.eye(N)
Eye(N) == Matrix(N, N, 1, [r \in 0..(N - 1) |-> [c \in {r} |-> 1]])

\* eye(N)[:, indices]: column m is the unit vector of the m-th smallest index
EyeColumns(N, indices) ==
    Matrix(N, Cardinality(indices), 1,
        [r \in 0..(N - 1) |->
            IF r \in indices
            THEN [c \in {Cardinality({x \in indices : x < r})} |-> 1]
            ELSE <<>>])

\* the sum of row[c] * B[c, k] over the columns c in cs
RECURSIVE DotSum(_, _, _, _)
DotSum(cs, row, Brows, k) ==
    IF cs = {} THEN 0
    ELSE LET c == CHOOSE x \in cs : TRUE
         IN  row[c] * Brows[c][k] + DotSum(cs \ {c}, row, Brows, k)

\* A.dot(B)
Dot(A, B) ==
    Matrix(A.nrows, B.ncols, A.den * B.den,
        [r \in 0..(A.nrows - 1) |->
            LET row == A.rows[r]
            IN  [k \in UNION {DOMAIN B.rows[c] : c \in DOMAIN row} |->
                    DotSum({c \in DOMAIN row : k \in DOMAIN B.rows[c]},
                           row, B.rows, k)]])

\* the sum of the second components of a set of pairs
RECURSIVE SumSet(_)
SumSet(prs) ==
    IF prs = {} THEN 0
    ELSE LET pr == CHOOSE x \in prs : TRUE IN pr[2] + SumSet(prs \ {pr})

\* two blocks side by side, over the larger of their denominators
Hstack(A, B) ==
    Matrix(A.nrows, A.ncols + B.ncols, Max2(A.den, B.den),
        [r \in 0..(A.nrows - 1) |->
            [c \in DOMAIN A.rows[r] \cup {A.ncols + k : k \in DOMAIN B.rows[r]} |->
                IF c < A.ncols
                THEN A.rows[r][c] * (Max2(A.den, B.den) \div A.den)
                ELSE B.rows[r][c - A.ncols] * (Max2(A.den, B.den) \div B.den)]])

\* scipy.sparse.bmat([blocks]): all the blocks side by side
RECURSIVE Bmat(_)
Bmat(blocks) ==
    IF Len(blocks) = 1 THEN blocks[1]
    ELSE Hstack(Bmat(SubSeq(blocks, 1, Len(blocks) - 1)), blocks[Len(blocks)])

\* the sum of the stored entries of one row
RowSum(row) == SumSet({<<c, row[c]>> : c \in DOMAIN row})

\* ---------------------------------------------- functions across levels
\* the level assertions of _function_children_1d and _function_parents_1d
FunctionChildrenOk(lv, L) == 0 <= lv /\ lv < L - 1
FunctionParentsOk(lv, L) == 0 < lv /\ lv < L

\* P[lv][d]: every axis carries the same knot vector
AxisProlongation(lv, d) == Prolongation[<<deg, KvNumSpans(spans, lv)>>]

\* _function_children_1d reading row j where the code reads column j
FunctionChildren1dByRow(lv, d, j) ==
    DOMAIN AxisProlongation(lv, d).rows[j]
\* _function_children_1d: P[lv][d].getcol(j).nonzero()[0]
FunctionChildren1d(lv, d, j) ==
    {i \in 0..(AxisProlongation(lv, d).nrows - 1) :
        j \in DOMAIN AxisProlongation(lv, d).rows[i]}

\* _function_parents_1d: P[lv-1][d].getrow(j).nonzero()[1]
FunctionParents1d(lv, d, j) ==
    DOMAIN AxisProlongation(lv - 1, d).rows[j]

\* function_children, sorted and without duplicates
FunctionChildren(lv, indices) ==
    UNION {Product([d \in 1..dim |-> FunctionChildren1d(lv, d, jj[d])]) : jj \in indices}

\* function_parents, sorted and without duplicates
FunctionParents(lv, indices) ==
    UNION {Product([d \in 1..dim |-> FunctionParents1d(lv, d, jj[d])]) : jj \in indices}

\* ------------------------------------------------------ sizes of the space
RECURSIVE SumSeq(_)
SumSeq(q) == IF q = <<>> THEN 0 ELSE Head(q) + SumSeq(Tail(q))

\* numactive listing the levels finest first
NumactiveFinestFirst == [i \in 1..numlevels |-> Cardinality(actfun[numlevels - i])]
\* numactive: the number of active functions per level, as a tuple
Numactive == [i \in 1..numlevels |-> Cardinality(actfun[i - 1])]
\* numdofs
Numdofs == SumSeq(Numactive)

\* --------------------------------------------------------- split_coeffs
\* x[a:b] of a vector x, with the bounds clipped to its length
Slice(x, a, b) == SubSeq(x, Min2(a, Len(x)) + 1, Min2(b, Len(x)))

\* split_coeffs cutting every segment at nk instead of j + nk
RECURSIVE SplitCoeffsLoopFixedEnd(_, _, _, _)
SplitCoeffsLoopFixedEnd(lv, j, x, result) ==
    IF lv >= numlevels THEN [j |-> j, result |-> result]
    ELSE LET nk == Cardinality(actfun[lv])
         IN  SplitCoeffsLoopFixedEnd(lv + 1, j + nk, x, Append(result, Slice(x, j, nk)))
\* split_coeffs: the loop over the levels
RECURSIVE SplitCoeffsLoop(_, _, _, _)
SplitCoeffsLoop(lv, j, x, result) ==
    IF lv >= numlevels THEN [j |-> j, result |-> result]
    ELSE LET nk == Cardinality(actfun[lv])
         IN  SplitCoeffsLoop(lv + 1, j + nk, x, Append(result, Slice(x, j, j + nk)))

\* split_coeffs(x): the segments, or the failed assertion on the length
SplitCoeffs(x) ==
    LET r == SplitCoeffsLoop(0, 0, x, <<>>)
    IN  IF r.j = Len(x)
        THEN [status |-> "returned", result |-> r.result]
        ELSE [status |-> "AssertionError"]

\* ------------------------------------------------------- represent_fine
\* TPMesh.numbf
Numbf(lv) == KvNumDofs(spans, deg, lv)^dim

\* np.ravel_multi_index(jj, numdofs, order='C')
RECURSIVE RavelMultiIndex(_, _, _)
RavelMultiIndex(jj, N, d) ==
    IF d = 0 THEN 0 ELSE RavelMultiIndex(jj, N, d - 1) * N + jj[d]

\* _ravel_indices: per level the raveled indices, in ascending order
RavelIndices(indexsets) ==
    [lv \in 0..(numlevels - 1) |->
        {RavelMultiIndex(jj, KvNumDofs(spans, deg, lv), dim) : jj \in indexsets[lv]}]

\* active_indices
ActiveIndices == RavelIndices(actfun)

\* ------------------------------------------------- derived index tuples
\* a set of integers in ascending order
RECURSIVE SortedInts(_)
SortedInts(S) ==
    IF S = {} THEN <<>> ELSE <<SetMin(S)>> \o SortedInts(S \ {SetMin(S)})

\* the bdspecs of the space: both sides of axis 0
BdSpecs == {<<0, 0>>, <<0, 1>>}

\* assemble.slice_indices(ax, idx, shape, ravel=False): the multi-indices of
\* an array of the given shape whose index on axis ax is idx, a negative
\* idx counting from the end of the axis
SliceIndices(ax, idx, shape) ==
    {f \in Product([d \in 1..Len(shape) |-> 0..(shape[d] - 1)]) :
        f[ax + 1] = idx % shape[ax + 1]}

\* _compute_single_axis_single_level_dirichlet_indices
SingleAxisDirichletIndices(lv, bdspec) ==
    LET N == [d \in 1..dim |-> KvNumDofs(spans, deg, lv)]
    IN  SliceIndices(bdspec[1], IF bdspec[2] = 0 THEN 0 ELSE -1, N)

\* dirichlet_indices: TPbindices[lv]
TPbindices(lv) == UNION {SingleAxisDirichletIndices(lv, bdspec) : bdspec \in BdSpecs}

\* dirichlet_indices: out_index as the first loop leaves it
OutIndex ==
    [lv \in 0..(numlevels - 1) |->
        [i \in 0..(numlevels - 1) |->
            IF i = lv THEN actfun[i] \cap TPbindices(i)
            ELSE IF 0 <= i /\ i < lv THEN actfun[i] \cap TPbindices(i)
            ELSE {}]]

\* dirichlet_indices without the insertion of the deactivated functions
InsertNothing(out_index) == out_index

\* dirichlet_indices: the insertion of the deactivated functions
InsertDeactivated(out_index) ==
    [lv \in 0..(numlevels - 1) |->
        [i \in 0..(numlevels - 1) |->
            IF i = lv THEN out_index[lv][lv] \cup (deactfun[lv] \cap TPbindices(lv))
            ELSE out_index[lv][i]]]

\* dirichlet_indices: self.__index_dirichlet
IndexDirichlet == InsertDeactivated(OutIndex)

\* the raveled indices of a set of functions of level lv, ascending
RavelSorted(lv, indices) ==
    SortedInts({RavelMultiIndex(jj, KvNumDofs(spans, deg, lv), dim) : jj \in indices})

\* dirichlet_indices: out, the raveled active boundary functions, followed on
\* the level itself by the raveled deactivated ones
RavelDirichlet ==
    [lv \in 0..(numlevels - 1) |->
        [i \in 0..(numlevels - 1) |->
            IF i = lv
            THEN RavelSorted(i, actfun[i] \cap TPbindices(i))
                     \o RavelSorted(i, deactfun[i] \cap TPbindices(i))
            ELSE IF i < lv THEN RavelSorted(i, actfun[i] \cap TPbindices(i))
            ELSE <<>>]]

\* deactivated_indices
DeactivatedIndices == RavelIndices(deactfun)

\* Pj with the truncation switched off
TruncateRowsNever(Pj, indices, truncate) == Pj
\* if truncate: Pj[act_indices[lv+1], :] = 0
TruncateRows(Pj, indices, truncate) ==
    IF truncate
    THEN [Pj EXCEPT !.rows = [r \in DOMAIN @ |-> IF r \in indices THEN <<>> ELSE @[r]]]
    ELSE Pj

\* represent_fine: the loop over the levels from the finest to the coarsest;
\* blocks collects the block of each level in that order
RECURSIVE RepresentFineLoop(_, _, _, _, _)
RepresentFineLoop(lv, truncate, act_indices, P, blocks) ==
    IF lv < 0 THEN blocks
    ELSE LET Nj == Numbf(lv)
             Pnew == IF lv = numlevels - 1 THEN Eye(Nj)
                     ELSE Dot(P, TruncateRows(LevelProlongation[<<dim, deg, spans, lv>>],
                                              act_indices[lv + 1], truncate))
             act_to_all == EyeColumns(Nj, act_indices[lv])
         IN  RepresentFineLoop(lv - 1, truncate, act_indices, Pnew,
                               Append(blocks, Dot(Pnew, act_to_all)))

\* represent_fine without blocks.reverse()
RepresentFineFinestFirst(truncate, act_indices) ==
    Bmat(RepresentFineLoop(numlevels - 1, truncate, act_indices, Eye(1), <<>>))
\* represent_fine(truncate), given what active_indices returned
RepresentFine(truncate, act_indices) ==
    LET blocks == RepresentFineLoop(numlevels - 1, truncate, act_indices, Eye(1), <<>>)
    IN  Bmat([b \in 1..Len(blocks) |-> blocks[Len(blocks) + 1 - b]])

\* ---------------------------------------------- index classifications
\* the order of tuples: a comes before b
LexLess(a, b) == \E k \in 1..dim : a[k] < b[k] /\ \A m \in 1..(k - 1) : a[m] = b[m]

\* a set of index tuples in descending order
RECURSIVE SortedDescending(_)
SortedDescending(S) ==
    IF S = {} THEN <<>>
    ELSE LET least == CHOOSE x \in S : \A y \in S \ {x} : LexLess(x, y)
         IN  SortedDescending(S \ {least}) \o <<least>>

\* sorted(S) for a set of index tuples
RECURSIVE Sorted(_)
Sorted(S) ==
    IF S = {} THEN <<>>
    ELSE LET least == CHOOSE x \in S : \A y \in S \ {x} : LexLess(x, y)
         IN  <<least>> \o Sorted(S \ {least})

\* HMesh.function_grandparents for 0 <= targetlv < lv
RECURSIVE FunctionGrandparents(_, _, _)
FunctionGrandparents(lv, indices, targetlv) ==
    IF lv - targetlv = 1 THEN FunctionParents(lv, indices)
    ELSE FunctionGrandparents(lv - 1, FunctionParents(lv, indices), targetlv)

\* the levels of the virtual hierarchies and of their contributions
Levels == 0..(numlevels - 1)

\* new_indices without the subtraction of the dirichlet functions
NewIndicesWithDirichlet(D) ==
    [lv \in Levels |->
        [i \in Levels |->
            IF i = lv THEN Sorted(actfun[i]) \o Sorted(deactfun[i]) ELSE <<>>]]

\* new_indices, with D the value of self.index_dirichlet
NewIndices(D) ==
    [lv \in Levels |->
        [i \in Levels |->
            IF i = lv
            THEN Sorted(actfun[i] \ D[lv][i]) \o Sorted(deactfun[i] \ D[lv][i])
            ELSE <<>>]]

\* the window without its lower end
BelowLevel(lv, i) == i < lv

\* lv - self.disparity <= i < lv
InWindow(lv, i) == lv - disparity <= i /\ i < lv

\* trunc_indices keeping in aux_dict[i][j] the functions of the levels passed
RECURSIVE AuxChildrenKeepAll(_, _, _)
AuxChildrenKeepAll(i, lv, j) ==
    FunctionChildren(lv - 1, IF lv - 1 = i THEN {j} ELSE AuxChildrenKeepAll(i, lv - 1, j))

\* trunc_indices: the set function_children(lv-1, aux_dict[i][j]) of the
\* iteration lv > i; aux_dict[i][j] starts as {j} and loses the active and
\* deactivated functions of every level it has been taken to
RECURSIVE AuxChildren(_, _, _)
AuxChildren(i, lv, j) ==
    FunctionChildren(lv - 1,
        IF lv - 1 = i THEN {j}
        ELSE AuxChildren(i, lv - 1, j) \ (actfun[lv - 1] \cup deactfun[lv - 1]))

\* trunc_indices
TruncIndices(D) ==
    [lv \in Levels |->
        [i \in Levels |->
            IF InWindow(lv, i)
            THEN Sorted({j \in actfun[i] :
                            AuxChildren(i, lv, j) \cap (actfun[lv] \cup deactfun[lv]) # {}}
                        \ D[lv][i])
            ELSE NewIndices(D)[lv][i]]]

\* func_supp_indices
FuncSuppIndices(D) ==
    [lv \in Levels |->
        [i \in Levels |->
            IF InWindow(lv, i)
            THEN Sorted((FunctionGrandparents(lv, actfun[lv], i) \cap actfun[i]) \ D[lv][i])
            ELSE NewIndices(D)[lv][i]]]

\* cell_supp_indices
CellSuppIndices(D) ==
    [lv \in Levels |->
        [i \in Levels |->
            IF InWindow(lv, i)
            THEN Sorted((SupportedIn(i, CellGrandparent(lv, Support(lv, actfun[lv]), i))
                            \cap actfun[i]) \ D[lv][i])
            ELSE NewIndices(D)[lv][i]]]

\* global_indices
GlobalIndices ==
    [lv \in Levels |->
        [i \in Levels |->
            IF i = lv THEN Sorted(actfun[i]) \o Sorted(deactfun[i])
            ELSE IF i < lv THEN Sorted(actfun[i])
            ELSE <<>>]]

\* ---------------------------------------------------------------- inputs
\* the subsets of S with at most k elements
RECURSIVE KSubsets(_, _)
KSubsets(S, k) ==
    IF k = 0 THEN {{}}
    ELSE LET prev == KSubsets(S, k - 1)
         IN  prev \cup {T \cup {x} : T \in prev, x \in S}

\* the marked dict naming the given (level, cell) pairs
MarkedOf(pairs) ==
    [lv \in {pr[1] : pr \in pairs} |-> {pr[2] : pr \in {q \in pairs : q[1] = lv}}]

\* the (level, cell) pairs of a dm-dimensional hierarchy on the given levels
LevelCells(dm, lvs) ==
    UNION {{<<lv, c>> : c \in TPCells(dm, CoarseSpans(dm), lv)} : lv \in lvs}

\* the marked dicts a caller of refine can pass, per dimension
MarkedDicts ==
    [dm \in Dims |->
        {MarkedOf(pairs) : pairs \in KSubsets(LevelCells(dm, MarkLevels), MaxMarked) \ {{}}}]

\* the dicts a caller of HMesh_cells can pass, per dimension
RequestDicts ==
    [dm \in Dims |->
        {MarkedOf(pairs) : pairs \in KSubsets(LevelCells(dm, MeshLevels), MaxRequested) \ {{}}}]

\* the cell sets of one level a caller of cell_children can pass
RequestSets ==
    [x \in Dims \X MeshLevels |->
        KSubsets(TPCells(x[1], CoarseSpans(x[1]), x[2]), MaxRequested) \ {{}}]

\* the function sets of one level a caller of function_children can pass
FunctionSets ==
    [key \in Dims \X Degrees \X MarkLevels |->
        KSubsets(TPFunctions(key[1], key[2], CoarseSpans(key[1]), key[3]),
                 MaxRequested) \ {{}}]

\* the levels a caller of a query can name, as lv, as target or as a count
QueryLevels == (-1)..(SetMax(MeshLevels) + 1)

\* the levels a caller can name: those of MarkLevels, and a negative one
AnyLevels == {-1} \cup MarkLevels

\* the cells a caller can name on a level: on every axis the indices of the
\* mesh and the one past the last
AnyCells(dm, lv) ==
    Product([d \in 1..dm |-> 0..KvNumSpans(CoarseSpans(dm), Max2(lv, 0))])

\* the marked mappings a caller of refine can pass, valid or not: the empty
\* one, and those naming cells on one level
AnyMarkedDicts ==
    [dm \in Dims |->
        {<<>>} \cup UNION {{[l \in {lv} |-> cells] :
                               cells \in KSubsets(AnyCells(dm, lv), MaxMarked) \ {{}}} :
                           lv \in AnyLevels}]

\* ------------------------------------------------------------------ spec
NoCall == [op |-> "none"]

Init ==
    /\ dim \in Dims
    /\ deg \in Degrees
    /\ spans = CoarseSpans(dim)
    /\ disparity \in Disparities
    /\ numlevels = 1
    /\ active = [lv \in {0} |-> Cells(0)]
    /\ deactivated = [lv \in {0} |-> {}]
    /\ actfun = [lv \in {0} |-> Functions(0)]
    /\ deactfun = [lv \in {0} |-> {}]
    /\ nrefines = 0
    /\ cache = NoCache
    /\ virt = NoVirtual
    /\ numP = 0
    /\ call = NoCall

\* the state HSpace.refine leaves, and the record of the call
Refined(op, marked, truncate) ==
    /\ LET r == HSpaceRefine(marked, truncate)
       IN  /\ numlevels' = r.numlevels
           /\ numP' = StoredP(r.numlevels)
           /\ active' = r.active
           /\ deactivated' = r.deactivated
           /\ actfun' = r.actfun
           /\ deactfun' = r.deactfun
           /\ call' = [op |-> op, marked |-> marked, truncate |-> truncate,
                       graded |-> r.marked, new_cells |-> r.new_cells,
                       old_actfun |-> EnsureLevels(actfun, r.numlevels)]
    /\ nrefines' = nrefines + 1
    /\ cache' = ClearCache(cache)
    /\ UNCHANGED <<dim, deg, spans, disparity, virt>>

\* hs.refine(marked, truncate)
Refine ==
    /\ call.op = "none"
    /\ nrefines < MaxRefines
    /\ \E marked \in MarkedDicts[dim], truncate \in BOOLEAN :
           Refined("refine", marked, truncate)

\* hs.refine_region(lv, region_function): the region picks any of the active
\* cells of level lv, possibly none
RefineRegion ==
    /\ call.op = "none"
    /\ nrefines < MaxRefines
    /\ \E lv \in MarkLevels :
           \E cells \in KSubsets(Get(active, lv), MaxMarked) :
               Refined("refine_region", [l \in {lv} |-> cells], FALSE)

\* the call returns to the caller
Return ==
    /\ call.op # "none"
    /\ call' = NoCall
    /\ UNCHANGED <<dim, deg, spans, disparity, virt, cache, numlevels, numP, active, deactivated,
                   actfun, deactfun, nrefines>>

Next == Refine \/ RefineRegion \/ Return

Spec == Init /\ [][Next]_vars

\* -------------------------------------------------- the HMesh on its own
\* hs.hmesh.refine(marked): the cells are refined, the functions are not
HMeshRefineCall ==
    /\ call.op = "none"
    /\ nrefines < MaxRefines
    /\ \E marked \in MarkedDicts[dim] :
           LET L == Max2(numlevels, SetMax(DOMAIN marked) + 2)
               r == HMeshRefine(L, marked, EnsureLevels(active, L),
                                EnsureLevels(deactivated, L))
           IN  /\ numlevels' = L
               /\ numP' = StoredP(L)
               /\ active' = r.active
               /\ deactivated' = r.deactivated
               /\ call' = [op |-> "hmesh_refine", marked |-> marked,
                           new_cells |-> r.new_cells]
    /\ nrefines' = nrefines + 1
    /\ UNCHANGED <<dim, deg, spans, disparity, virt, cache, actfun, deactfun>>

\* hs.hmesh.HMesh_cells(marked)
HMeshCellsCall ==
    /\ call.op = "none"
    /\ \E marked \in RequestDicts[dim] :
           LET r == HMeshCells(marked)
           IN  call' = [op |-> "HMesh_cells", marked |-> marked,
                        status |-> r.status, out |-> r.out]
    /\ UNCHANGED <<dim, deg, spans, disparity, virt, cache, numlevels, numP, active, deactivated,
                   actfun, deactfun, nrefines>>

\* hs.hmesh.cell_parent(lv + 1, hs.hmesh.cell_children(lv, cells))
CellParentOfChildren ==
    /\ call.op = "none"
    /\ \E lv \in MeshLevels :
           \E cells \in RequestSets[<<dim, lv>>] :
               call' = IF CellChildrenOk(lv, numlevels) /\ CellParentOk(lv + 1, numlevels)
                       THEN [op |-> "cell_parent", lv |-> lv, cells |-> cells,
                             status |-> "returned",
                             children |-> CellChildren(cells),
                             parents |-> CellParent(CellChildren(cells))]
                       ELSE [op |-> "cell_parent", lv |-> lv, cells |-> cells,
                             status |-> "AssertionError"]
    /\ UNCHANGED <<dim, deg, spans, disparity, virt, cache, numlevels, numP, active, deactivated,
                   actfun, deactfun, nrefines>>

\* an HMesh of a degree-1 tensor mesh: neither the degree nor the disparity
\* is read by HMesh
InitMesh == Init /\ deg = 1 /\ disparity = Inf

NextMesh == HMeshRefineCall \/ HMeshCellsCall \/ CellParentOfChildren \/ Return

SpecMesh == InitMesh /\ [][NextMesh]_vars

\* ------------------------------------- the space with its representation
\* hs.represent_fine(truncate); the copy of act_indices that active_indices
\* leaves in __ravel_actfun is read by ravel_actfun only, and is followed in
\* SpecCache
RepresentFineCall ==
    /\ call.op = "none"
    /\ \E truncate \in BOOLEAN :
           call' = [op |-> "represent_fine", truncate |-> truncate,
                    matrix |-> RepresentFine(truncate, ActiveIndices)]
    /\ UNCHANGED <<dim, deg, spans, disparity, virt, cache, numlevels, numP, active, deactivated,
                   actfun, deactfun, nrefines>>

NextFine == Refine \/ RefineRegion \/ RepresentFineCall \/ Return

SpecFine == Init /\ [][NextFine]_vars

\* represent_fine does not read the disparity
InitColumns == Init /\ disparity = Inf

SpecColumns == InitColumns /\ [][NextFine]_vars

\* ---------------------------------------------------- the test scenarios
\* test_hspace: the marked dicts of its two refine calls
HSpaceTestMarked ==
    << [lv \in {0} |-> {<<0, 0>>, <<0, 1>>, <<1, 0>>, <<1, 1>>, <<0, 2>>}],
       [lv \in {1} |-> {<<0, 0>>, <<0, 1>>, <<2, 0>>, <<1, 0>>, <<1, 1>>}] >>

\* the dicts marking some of the cells of a marked dict, on each of its levels
SubDicts(marked) ==
    {sub \in [DOMAIN marked -> UNION {SUBSET marked[lv] : lv \in DOMAIN marked}] :
        \A lv \in DOMAIN marked : sub[lv] # {} /\ sub[lv] \subseteq marked[lv]}

\* the calls made so far in a scenario, the one just made last
Earlier == IF call.op = "none" THEN <<>> ELSE Append(call.earlier, call.arg)

\* the state HSpace.refine leaves in a scenario, and the record of the call
TestRefined(op, arg, marked) ==
    /\ LET r == HSpaceRefine(marked, FALSE)
       IN  /\ numlevels' = r.numlevels
           /\ numP' = StoredP(r.numlevels)
           /\ active' = r.active
           /\ deactivated' = r.deactivated
           /\ actfun' = r.actfun
           /\ deactfun' = r.deactfun
           /\ call' = [op |-> op, arg |-> arg, marked |-> marked,
                       earlier |-> Earlier]
    /\ nrefines' = nrefines + 1
    /\ cache' = ClearCache(cache)
    /\ UNCHANGED <<dim, deg, spans, disparity, virt>>

\* test_hspace: hs.refine(marked), with all or some of the cells the test marks
TestRefine ==
    /\ <<dim, deg, spans>> = HSpaceTestSpace
    /\ nrefines < Len(HSpaceTestMarked)
    /\ \E marked \in SubDicts(HSpaceTestMarked[nrefines + 1]) :
           TestRefined("refine", marked, marked)

\* test_incidence: the regions a/8 < x < b/8 of the unit interval
RegionDen == 8
Regions == {r \in (0..RegionDen) \X (0..RegionDen) : r[1] < r[2]}
\* its two refine_region calls: the level and the region
IncidenceTestCalls == << <<0, <<2, 6>>>>, <<1, <<3, 5>>>> >>

\* region_function(*cell_center(c)) for a cell of a 1D mesh: the knots of
\* level lv are k / numspans, the cell center is (2k + 1) / (2 numspans)
InRegion(lv, c, region) ==
    /\ region[1] * 2 * KvNumSpans(spans, lv) < RegionDen * (2 * c[1] + 1)
    /\ RegionDen * (2 * c[1] + 1) < region[2] * 2 * KvNumSpans(spans, lv)

\* refine_region: the active cells of level lv whose center is in the region
RegionCells(lv, region) == {c \in Get(active, lv) : InRegion(lv, c, region)}

\* test_incidence: hs.refine_region(lv, region) on the level the test names,
\* with its region or another one
TestRefineRegion ==
    /\ <<dim, deg, spans>> = IncidenceTestSpace
    /\ nrefines < Len(IncidenceTestCalls)
    /\ \E region \in Regions :
           LET lv == IncidenceTestCalls[nrefines + 1][1]
           IN  TestRefined("refine_region", <<lv, region>>,
                   [l \in {lv} |-> RegionCells(lv, region)])

\* ------------------------------------------------------ incidence_matrix
\* a set of multi-indices below N in ascending order
RECURSIVE SortedIndices(_, _)
SortedIndices(S, N) ==
    IF S = {} THEN <<>>
    ELSE LET least == CHOOSE x \in S : \A y \in S :
                          RavelMultiIndex(x, N, dim) <= RavelMultiIndex(y, N, dim)
         IN  <<least>> \o SortedIndices(S \ {least}, N)

\* the (level, index) pairs of the given per-level sets, by level then index
RECURSIVE Flat(_, _)
Flat(sets, lv) ==
    IF lv >= numlevels THEN <<>>
    ELSE [i \in 1..Cardinality(sets[lv]) |->
             <<lv, SortedIndices(sets[lv], KvNumDofs(spans, deg, lv))[i]>>]
         \o Flat(sets, lv + 1)

\* the support of function f = (level, jj) meets the cell c = (level, kk)
Overlaps(f, c) ==
    LET fine == Max2(f[1], c[1])
    IN  \A d \in 1..dim :
            LET supp == MeshSupportIdx(spans, deg, f[1], f[2][d])
            IN  /\ supp[1] * 2^(fine - f[1]) < (c[2][d] + 1) * 2^(fine - c[1])
                /\ c[2][d] * 2^(fine - c[1]) < supp[2] * 2^(fine - f[1])

\* incidence_matrix: active functions by active cells
IncidenceMatrix ==
    LET funcs == Flat(actfun, 0)
        cells == Flat(active, 0)
    IN  [r \in 1..Len(funcs) |->
            [c \in 1..Len(cells) |-> IF Overlaps(funcs[r], cells[c]) THEN 1 ELSE 0]]

\* HSpace(kvs) with the default disparity
InitTest ==
    /\ \E sp \in TestSpaces :
           dim = sp[1] /\ deg = sp[2] /\ spans = sp[3]
    /\ disparity = Inf
    /\ numlevels = 1
    /\ active = [lv \in {0} |-> Cells(0)]
    /\ deactivated = [lv \in {0} |-> {}]
    /\ actfun = [lv \in {0} |-> Functions(0)]
    /\ deactfun = [lv \in {0} |-> {}]
    /\ nrefines = 0
    /\ cache = NoCache
    /\ virt = NoVirtual
    /\ numP = 0
    /\ call = NoCall

NextTest == TestRefine \/ TestRefineRegion

SpecTest == InitTest /\ [][NextTest]_vars

\* ------------------------------------------- the space and its vectors
\* the lengths of the vectors passed to split_coeffs: numdofs, one less and
\* one more, and the empty vector
CoeffLengths == {n \in {0, Numdofs - 1, Numdofs, Numdofs + 1} : n >= 0}

\* hs.split_coeffs(x) for the vector x = (1, 2, ..., n)
SplitCoeffsCall ==
    /\ call.op = "none"
    /\ \E n \in CoeffLengths :
           LET x == [i \in 1..n |-> i]
           IN  call' = [op |-> "split_coeffs", x |-> x] @@ SplitCoeffs(x)
    /\ UNCHANGED <<dim, deg, spans, disparity, virt, cache, numlevels, numP, active, deactivated,
                   actfun, deactfun, nrefines>>

InitCoeffs == Init /\ deg = 1 /\ disparity = Inf

NextCoeffs == Refine \/ RefineRegion \/ SplitCoeffsCall \/ Return

SpecCoeffs == InitCoeffs /\ [][NextCoeffs]_vars

\* -------------------------------------------- the space and its caches
\* hs.refine({lv: [c]}) for an active cell c
RefineActiveCell ==
    /\ call.op = "none"
    /\ nrefines < MaxRefines
    /\ \E lv \in MarkLevels :
           \E c \in Get(active, lv) :
               Refined("refine", [l \in {lv} |-> {c}], FALSE)

\* the record of a call that read or wrote the caches
Queried(op, status, value, newcache) ==
    /\ call' = [op |-> op, status |-> status, value |-> value]
    /\ cache' = newcache
    /\ UNCHANGED <<dim, deg, spans, disparity, virt, numlevels, numP, active, deactivated,
                   actfun, deactfun, nrefines>>

\* hs.active_indices()
ActiveIndicesCall ==
    /\ call.op = "none"
    /\ Queried("active_indices", "returned", ActiveIndices,
               [cache EXCEPT !.ravel_actfun = Cached(ActiveIndices)])

\* hs.deactivated_indices()
DeactivatedIndicesCall ==
    /\ call.op = "none"
    /\ Queried("deactivated_indices", "returned", DeactivatedIndices,
               [cache EXCEPT !.ravel_deactfun = Cached(DeactivatedIndices)])

\* hs.ravel_actfun: a tuple with one array per level is never falsy
RavelActfunGet ==
    /\ call.op = "none"
    /\ IF cache.ravel_actfun = Unset
       THEN Queried("ravel_actfun", "AttributeError", <<>>, cache)
       ELSE Queried("ravel_actfun", "returned", cache.ravel_actfun.value, cache)

\* hs.ravel_deactfun
RavelDeactfunGet ==
    /\ call.op = "none"
    /\ IF cache.ravel_deactfun = Unset
       THEN Queried("ravel_deactfun", "AttributeError", <<>>, cache)
       ELSE Queried("ravel_deactfun", "returned", cache.ravel_deactfun.value, cache)

\* hs.ravel_actdeactfun: the attribute is read before anything assigns it
RavelActdeactfunGet ==
    /\ call.op = "none"
    /\ IF cache.ravel_actdeactfun = Unset
       THEN Queried("ravel_actdeactfun", "AttributeError", <<>>, cache)
       ELSE Queried("ravel_actdeactfun", "returned", cache.ravel_actdeactfun.value, cache)

\* the caches after dirichlet_indices()
DirichletIndices ==
    [cache EXCEPT !.ravel_dirichlet = Cached(RavelDirichlet),
                  !.index_dirichlet = Cached(IndexDirichlet)]

\* hs.index_dirichlet
IndexDirichletGet ==
    /\ call.op = "none"
    /\ IF cache.index_dirichlet = None
       THEN Queried("index_dirichlet", "returned", IndexDirichlet, DirichletIndices)
       ELSE Queried("index_dirichlet", "returned", cache.index_dirichlet.value, cache)

\* hs.ravel_dirichlet
RavelDirichletGet ==
    /\ call.op = "none"
    /\ IF cache.ravel_dirichlet = None
       THEN Queried("ravel_dirichlet", "returned", RavelDirichlet, DirichletIndices)
       ELSE Queried("ravel_dirichlet", "returned", cache.ravel_dirichlet.value, cache)

InitCache == Init /\ disparity = Inf

NextCache ==
    \/ RefineActiveCell
    \/ ActiveIndicesCall
    \/ DeactivatedIndicesCall
    \/ RavelActfunGet
    \/ RavelDeactfunGet
    \/ RavelActdeactfunGet
    \/ IndexDirichletGet
    \/ RavelDirichletGet
    \/ Return

SpecCache == InitCache /\ [][NextCache]_vars

\* ------------------------------------------------ refine with any marks
\* the cell c is a cell of the mesh of level lv
InMesh(lv, c) == \A d \in 1..dim : 0 <= c[d] /\ c[d] < KvNumSpans(spans, lv)

\* the sets and levels the refine family mutates
Hierarchy ==
    [numlevels |-> numlevels, active |-> active, deactivated |-> deactivated,
     actfun |-> actfun, deactfun |-> deactfun]

\* hmesh.refine(marked) for any mapping: max() of no keys raises, and nothing
\* else is looked at
HMeshRefineAny(marked) ==
    IF DOMAIN marked = {} THEN [status |-> "ValueError"] @@ Hierarchy
    ELSE LET L == Max2(numlevels, SetMax(DOMAIN marked) + 2)
             r == HMeshRefine(L, marked, EnsureLevels(active, L),
                              EnsureLevels(deactivated, L))
         IN  [status |-> "returned", numlevels |-> L, active |-> r.active,
              deactivated |-> r.deactivated, actfun |-> actfun, deactfun |-> deactfun]

\* hs.refine(marked) with unbounded disparity for any mapping: max() of no
\* keys raises before anything is done; supported_in, called by
\* _functions_to_deactivate once the levels are added and the cells refined,
\* raises on a marked cell that is not in the mesh
HSpaceRefineAny(marked) ==
    IF DOMAIN marked = {} THEN [status |-> "ValueError"] @@ Hierarchy
    ELSE LET L == Max2(numlevels, SetMax(DOMAIN marked) + 2)
             r == HMeshRefine(L, marked, EnsureLevels(active, L),
                              EnsureLevels(deactivated, L))
         IN  IF \E lv \in 0..(L - 1) : \E c \in Get(marked, lv) : ~InMesh(lv, c)
             THEN [status |-> "IndexError", numlevels |-> L, active |-> r.active,
                   deactivated |-> r.deactivated,
                   actfun |-> EnsureLevels(actfun, L),
                   deactfun |-> EnsureLevels(deactfun, L)]
             ELSE LET h == HSpaceRefine(marked, FALSE)
                  IN  [status |-> "returned", numlevels |-> h.numlevels,
                       active |-> h.active, deactivated |-> h.deactivated,
                       actfun |-> h.actfun, deactfun |-> h.deactfun]

\* hs.refine_region(lv, region_function) for any level: the levels are added
\* first; a negative lv then counts from the finest level; cell_extents raises
\* on an active cell that is not in the mesh; the region picks the given
\* ones of the active cells
RefineRegionAny(lv, picked) ==
    LET L == Max2(numlevels, lv + 2)
        at == IF lv < 0 THEN L + lv ELSE lv
    IN  IF \E c \in EnsureLevels(active, L)[at] : ~InMesh(at, c)
        THEN [status |-> "IndexError", numlevels |-> L,
              active |-> EnsureLevels(active, L),
              deactivated |-> EnsureLevels(deactivated, L),
              actfun |-> EnsureLevels(actfun, L),
              deactfun |-> EnsureLevels(deactfun, L)]
        ELSE HSpaceRefineAny([l \in {lv} |-> picked])

\* the state the call leaves, the record of the call and of the state before it
Called(op, marked, r) ==
    /\ numlevels' = r.numlevels
    /\ numP' = StoredP(r.numlevels)
    /\ active' = r.active
    /\ deactivated' = r.deactivated
    /\ actfun' = r.actfun
    /\ deactfun' = r.deactfun
    /\ call' = [op |-> op, marked |-> marked, status |-> r.status,
                before |-> Hierarchy]
    /\ cache' = IF op # "hmesh_refine" /\ r.status = "returned"
                THEN ClearCache(cache) ELSE cache
    /\ nrefines' = nrefines + 1
    /\ UNCHANGED <<dim, deg, spans, disparity, virt>>

\* hm.refine(marked) on a mesh that belongs to no space
HMeshRefineAnyCall ==
    /\ call.op = "none"
    /\ nrefines < MaxRefines
    /\ DOMAIN actfun = {}
    /\ \E marked \in AnyMarkedDicts[dim] :
           Called("hmesh_refine", marked, HMeshRefineAny(marked))

\* hs.refine(marked)
RefineAnyCall ==
    /\ call.op = "none"
    /\ nrefines < MaxRefines
    /\ DOMAIN actfun # {}
    /\ \E marked \in AnyMarkedDicts[dim] :
           Called("refine", marked, HSpaceRefineAny(marked))

\* hs.refine_region(lv, region_function)
RefineRegionAnyCall ==
    /\ call.op = "none"
    /\ nrefines < MaxRefines
    /\ DOMAIN actfun # {}
    /\ \E lv \in AnyLevels :
           LET at == IF lv < 0 THEN Max2(numlevels, lv + 2) + lv ELSE lv
           IN  \E picked \in KSubsets(Get(active, at), MaxMarked) :
                   Called("refine_region", [l \in {lv} |-> picked],
                          RefineRegionAny(lv, picked))

\* HSpace(kvs), or HMesh(TPMesh(kvs)) with no function sets
InitAny ==
    /\ dim = 1
    /\ deg = 1
    /\ spans = CoarseSpans(dim)
    /\ disparity = Inf
    /\ numlevels = 1
    /\ active = [lv \in {0} |-> Cells(0)]
    /\ deactivated = [lv \in {0} |-> {}]
    /\ \/ actfun = [lv \in {0} |-> Functions(0)] /\ deactfun = [lv \in {0} |-> {}]
       \/ actfun = <<>> /\ deactfun = <<>>
    /\ nrefines = 0
    /\ cache = NoCache
    /\ virt = NoVirtual
    /\ numP = 0
    /\ call = NoCall

NextAny == HMeshRefineAnyCall \/ RefineAnyCall \/ RefineRegionAnyCall \/ Return

SpecAny == InitAny /\ [][NextAny]_vars

\* ------------------------------------------- the levels and their queries
\* hs._ensure_levels(L): new levels are appended empty
EnsureLevelsCall ==
    /\ call.op = "none"
    /\ \E L \in QueryLevels :
           LET h == EnsureLevelsLoop(Hierarchy @@ [P |-> numP], L)
           IN  /\ numlevels' = h.numlevels
               /\ numP' = h.P
               /\ active' = h.active
               /\ deactivated' = h.deactivated
               /\ actfun' = h.actfun
               /\ deactfun' = h.deactfun
               /\ call' = [op |-> "_ensure_levels", L |-> L,
                           before |-> Hierarchy @@ [P |-> numP]]
    /\ UNCHANGED <<dim, deg, spans, disparity, virt, cache, nrefines>>

\* hs.hmesh.function_parents(lv + 1, hs.hmesh.function_children(lv, indices))
FunctionParentsOfChildren ==
    /\ call.op = "none"
    /\ \E lv \in MarkLevels :
           \E indices \in FunctionSets[<<dim, deg, lv>>] :
               call' = IF /\ FunctionChildrenOk(lv, numlevels)
                          /\ FunctionParentsOk(lv + 1, numlevels)
                       THEN [op |-> "function_parents", lv |-> lv,
                             indices |-> indices, status |-> "returned",
                             children |-> FunctionChildren(lv, indices),
                             parents |-> FunctionParents(lv + 1,
                                             FunctionChildren(lv, indices))]
                       ELSE [op |-> "function_parents", lv |-> lv,
                             indices |-> indices, status |-> "AssertionError"]
    /\ UNCHANGED <<dim, deg, spans, disparity, virt, cache, numlevels, numP, active, deactivated,
                   actfun, deactfun, nrefines>>

QueryTargets == {<<>>} \cup {<<t>> : t \in QueryLevels}

\* the record of a query on the cells of one coarse cell
Asked(op, lv, targetlv, r) ==
    /\ call' = [op |-> op, lv |-> lv, targetlv |-> targetlv] @@ r
    /\ UNCHANGED <<dim, deg, spans, disparity, virt, cache, numlevels, numP, active, deactivated,
                   actfun, deactfun, nrefines>>

\* hs.hmesh.cell_children(lv, cells)
CellChildrenCall ==
    /\ call.op = "none"
    /\ \E lv \in QueryLevels : \E c \in Cells(0) :
           Asked("cell_children", lv, <<>>,
                 IF CellChildrenOk(lv, numlevels) THEN Returned(CellChildren({c}))
                 ELSE Failed)

\* hs.hmesh.cell_parent(lv, cells)
CellParentCall ==
    /\ call.op = "none"
    /\ \E lv \in QueryLevels : \E c \in Cells(0) :
           Asked("cell_parent", lv, <<>>,
                 IF CellParentOk(lv, numlevels) THEN Returned(CellParent({c}))
                 ELSE Failed)

\* hs.hmesh.cell_babys(lv, cells, targetlv)
CellBabysCall ==
    /\ call.op = "none"
    /\ \E lv \in QueryLevels : \E targetlv \in QueryTargets : \E c \in Cells(0) :
           Asked("cell_babys", lv, targetlv, CellBabys(lv, {c}, targetlv, numlevels))

\* hs.hmesh.cell_grandparent(lv, cells, targetlv)
CellGrandparentCall ==
    /\ call.op = "none"
    /\ \E lv \in QueryLevels : \E targetlv \in QueryTargets : \E c \in Cells(0) :
           Asked("cell_grandparent", lv, targetlv,
                 CellGrandparentOf(lv, {c}, targetlv, numlevels))

\* the disparity is read by refine only
InitQuery == Init /\ disparity = Inf

NextQuery ==
    \/ EnsureLevelsCall
    \/ FunctionParentsOfChildren
    \/ CellChildrenCall
    \/ CellParentCall
    \/ CellBabysCall
    \/ CellGrandparentCall
    \/ Return

SpecQuery == InitQuery /\ [][NextQuery]_vars

\* ------------------------------------------------------------ properties
RefineOps == {"refine", "refine_region"}

\* the ancestor on level k of the cell c of level lv, for k <= lv
AncestorAt(c, lv, k) == [d \in 1..dim |-> c[d] \div 2^(lv - k)]

\* C1: after any sequence of refine calls, with any marked mapping, the
\* active cells and the deactivated cells of every allocated level are
\* disjoint
ActiveDeactivatedDisjoint ==
    \A lv \in Levels : active[lv] \cap deactivated[lv] = {}

\* C2: after any sequence of refine calls the active cells tile the domain
\* exactly once: every cell of the finest allocated level has exactly one
\* active cell among itself and its ancestors
ActiveCellsTileOnce ==
    \A c \in Cells(numlevels - 1) :
        Cardinality({lv \in Levels :
            AncestorAt(c, numlevels - 1, lv) \in active[lv]}) = 1

\* C3: after any sequence of refine calls every deactivated cell of level lv
\* has all its 2^D children present on level lv+1, each active or deactivated
DeactivatedCellsHaveChildren ==
    \A lv \in Levels : \A c \in deactivated[lv] :
        /\ lv + 1 \in Levels
        /\ Cardinality(CellChildren({c})) = 2^dim
        /\ CellChildren({c}) \subseteq active[lv + 1] \cup deactivated[lv + 1]

\* a deactivated cell with children of both kinds, two calls into a behaviour
DeactivatedCellWithMixedChildren ==
    /\ nrefines = 2
    /\ \E lv \in Levels : \E c \in deactivated[lv] :
           /\ lv + 1 \in Levels
           /\ CellChildren({c}) \cap active[lv + 1] # {}
           /\ CellChildren({c}) \cap deactivated[lv + 1] # {}

\* C4: after every HSpace.refine call every function whose cells of its own
\* level are all deactivated is in deactfun and not in actfun, and no
\* active function is left without an active cell of its level in its
\* support
FunctionsFollowTheirCells ==
    \A lv \in Levels :
        /\ \A f \in Functions(lv) :
               Support(lv, {f}) \subseteq deactivated[lv]
                   => f \in deactfun[lv] /\ f \notin actfun[lv]
        /\ \A f \in actfun[lv] : Support(lv, {f}) \cap active[lv] # {}

\* the functions a refine call has added to actfun[lv]
NewlyActive(lv) == actfun[lv] \ call.old_actfun[lv]
\* the candidates for activation on level lv
Activatable(lv) ==
    {f \in Functions(lv) :
        /\ Support(lv, {f}) \cap call.new_cells[lv] # {}
        /\ f \notin call.old_actfun[lv]
        /\ Support(lv, {f}) \subseteq active[lv] \cup deactivated[lv]}

\* C5: the functions HSpace.refine newly adds to actfun[lv+1] are exactly
\* those supported in a cell this call created on level lv+1, not active
\* before, with their whole support in active[lv+1] \cup deactivated[lv+1]
ActivatesExactlyTheCandidates ==
    call.op \in RefineOps =>
        \A lv \in Levels \ {0} : NewlyActive(lv) = Activatable(lv)

\* a call that activates functions and leaves out one that reaches a cell
\* not represented on its level
ActivatesSomeLeavesSome ==
    /\ call.op \in RefineOps
    /\ \E lv \in Levels \ {0} :
           /\ NewlyActive(lv) # {}
           /\ \E f \in Functions(lv) \ actfun[lv] :
                  /\ Support(lv, {f}) \cap call.new_cells[lv] # {}
                  /\ ~(Support(lv, {f}) \subseteq active[lv] \cup deactivated[lv])

\* C6: with a finite disparity d, after any refine call no two active cells,
\* one in the support extension of the other, differ in level by more than d
DisparityBounded ==
    disparity < Inf =>
        \A l \in Levels, k \in Levels :
            l - k > disparity =>
                \A c \in active[l] :
                    CellSupportExtension(l, {c}, k) \cap active[k] = {}

\* the (level, cell) pairs listed by a dict of cell sets
Listed(cells) == UNION {{<<lv, c>> : c \in cells[lv]} : lv \in DOMAIN cells}

\* the active cells below / above the cell c of level lv
ActiveDescendants(lv, c) ==
    UNION {{<<k, x>> : x \in {y \in active[k] : AncestorAt(y, k, lv) = c}} :
           k \in {j \in Levels : j > lv}}
ActiveAncestors(lv, c) ==
    {<<k, AncestorAt(c, lv, k)>> :
        k \in {j \in Levels : j < lv /\ AncestorAt(c, lv, j) \in active[j]}}

\* C8: the dict HMesh_cells returns has no empty level, lists active cells
\* only, and covers each requested cell: an active cell by itself, a
\* deactivated cell by all of its active descendants, a cell that is not
\* represented at its level by an active ancestor
HMeshCellsCoversRequest ==
    (call.op = "HMesh_cells" /\ call.status = "returned") =>
        /\ \A lv \in DOMAIN call.out :
              call.out[lv] # {} /\ call.out[lv] \subseteq active[lv]
        /\ \A pr \in Listed(call.marked) :
              /\ pr[2] \in active[pr[1]] => pr \in Listed(call.out)
              /\ pr[2] \in deactivated[pr[1]] =>
                     ActiveDescendants(pr[1], pr[2]) \subseteq Listed(call.out)
              /\ pr[2] \notin active[pr[1]] \cup deactivated[pr[1]] =>
                     ActiveAncestors(pr[1], pr[2]) \cap Listed(call.out) # {}

\* C9: HMesh_cells never enters a substitution loop whose work set stays
\* non-empty: every call returns or fails the level assertion
HMeshCellsTerminates ==
    call.op = "HMesh_cells" => call.status # "loops"

\* a returned call that had to substitute children for one requested cell
\* and parents for another
SubstitutesChildrenAndParents ==
    /\ call.op = "HMesh_cells"
    /\ call.status = "returned"
    /\ \E pr \in Listed(call.marked) :
           pr[2] \in deactivated[pr[1]] \ active[pr[1]]
    /\ \E pr \in Listed(call.marked) :
           /\ pr[2] \notin active[pr[1]] \cup deactivated[pr[1]]
           /\ pr[1] = 2

\* C10: for 0 <= lv < numlevels - 1 the parents of the children of a set of
\* level-lv cells are the set itself; the children are the cells whose
\* index on every axis is 2c or 2c + 1, 2^D for each cell, and no cell is a
\* child of two cells
ParentOfChildrenIsIdentity ==
    (call.op = "cell_parent" /\ 0 <= call.lv /\ call.lv < numlevels - 1) =>
        /\ call.status = "returned"
        /\ call.parents = call.cells
        /\ call.children =
               {k \in Cells(call.lv + 1) :
                   \E c \in call.cells : \A d \in 1..dim : k[d] \in {2 * c[d], 2 * c[d] + 1}}
        /\ Cardinality(call.children) = 2^dim * Cardinality(call.cells)

\* the round trip was taken on two cells of a two-dimensional level 1
RoundTripOnTwoCells ==
    /\ call.op = "cell_parent"
    /\ call.status = "returned"
    /\ dim = 2
    /\ call.lv = 1
    /\ Cardinality(call.cells) = 2

\* C7: every row of the matrix represent_fine(truncate=True) returns sums to
\* one, so the all-ones coefficient vector is represented by the all-ones
\* vector of the finest level
TruncatedRowsSumToOne ==
    (call.op = "represent_fine" /\ call.truncate) =>
        /\ call.matrix.nrows = Numbf(numlevels - 1)
        /\ call.matrix.ncols = SumSet({<<lv, Cardinality(actfun[lv])>> : lv \in Levels})
        /\ \A r \in 0..(call.matrix.nrows - 1) :
              RowSum(call.matrix.rows[r]) = call.matrix.den

\* the truncated matrix of a space of three levels whose untruncated matrix
\* has a row that sums to more than one
TruncationChangesARowSum ==
    /\ call.op = "represent_fine"
    /\ call.truncate
    /\ numlevels = 3
    /\ LET hb == RepresentFine(FALSE, ActiveIndices)
       IN  \E r \in 0..(hb.nrows - 1) : RowSum(hb.rows[r]) > hb.den

\* C11 as stated: for 0 <= lv < numlevels - 1 the parents of the children of
\* a set of level-lv functions are that set
ParentsOfChildrenAreTheFunctions ==
    (call.op = "function_parents" /\ 0 <= call.lv /\ call.lv < numlevels - 1) =>
        /\ call.status = "returned"
        /\ call.parents = call.indices

\* C11: for 0 <= lv < numlevels - 1 the parents of the children of a set of
\* level-lv functions contain that set
ParentsOfChildrenContainTheFunctions ==
    (call.op = "function_parents" /\ 0 <= call.lv /\ call.lv < numlevels - 1) =>
        /\ call.status = "returned"
        /\ call.indices \subseteq call.parents

\* a round trip in two dimensions that returns more than the functions given
RoundTripAddsNeighbours ==
    /\ call.op = "function_parents"
    /\ call.status = "returned"
    /\ dim = 2
    /\ call.indices \subseteq call.parents
    /\ call.parents # call.indices

\* the per-level sizes of a list of sets
Sizes(sets) == [i \in 1..numlevels |-> Cardinality(sets[i - 1])]

\* C12: the degree-3, 3-interval 2D space starts with 3x3 cells and 36
\* functions; after refine of the five level-0 cells and then of the five
\* level-1 cells of test_hspace it has 3 levels, (28, 21, 20) active and
\* (8, 5, 0) deactivated functions, 69 dofs and 39 active cells
HSpaceTestCounts ==
    <<dim, deg, spans>> = HSpaceTestSpace =>
        /\ nrefines = 0 =>
               /\ Cardinality(active[0]) = 3 * 3
               /\ Cardinality(actfun[0]) = 36
        /\ (/\ call.op = "refine"
            /\ call.earlier = <<HSpaceTestMarked[1]>>
            /\ call.arg = HSpaceTestMarked[2]) =>
               /\ numlevels = 3
               /\ Sizes(actfun) = <<28, 21, 20>>
               /\ Numactive = <<28, 21, 20>>
               /\ Sizes(deactfun) = <<8, 5, 0>>
               /\ Numdofs = 69
               /\ SumSeq(Sizes(active)) = 39

\* both refine calls of test_hspace have been made
HSpaceTestRefinedTwice ==
    /\ <<dim, deg, spans>> = HSpaceTestSpace
    /\ call.op = "refine"
    /\ call.earlier = <<HSpaceTestMarked[1]>>
    /\ call.arg = HSpaceTestMarked[2]
    /\ numlevels = 3
    /\ Numdofs = 69

\* test_incidence: the matrix the test compares with
IncidenceTestReference ==
    << <<1, 0,  0, 0,  0, 0, 0, 0>>,
       <<1, 0,  1, 0,  1, 1, 0, 0>>,
       <<1, 0,  1, 1,  1, 1, 1, 1>>,
       <<0, 1,  1, 1,  1, 1, 1, 1>>,
       <<0, 1,  0, 1,  0, 0, 1, 1>>,
       <<0, 1,  0, 0,  0, 0, 0, 0>>,
       <<0, 0,  1, 0,  1, 1, 1, 1>>,
       <<0, 0,  0, 1,  1, 1, 1, 1>>,
       <<0, 0,  0, 0,  1, 1, 1, 0>>,
       <<0, 0,  0, 0,  0, 1, 1, 1>> >>

\* C13: on the degree-2, 4-interval 1D space, refine_region(0, 1/4 < x < 3/4)
\* then refine_region(1, 3/8 < x < 5/8) leave (6, 2, 2) active functions,
\* (2, 2, 4) active cells and the incidence matrix of test_incidence
IncidenceTestMatrix ==
    (/\ <<dim, deg, spans>> = IncidenceTestSpace
     /\ call.op = "refine_region"
     /\ call.earlier = <<IncidenceTestCalls[1]>>
     /\ call.arg = IncidenceTestCalls[2]) =>
        /\ [i \in 1..numlevels |-> Cardinality(ActiveIndices[i - 1])] = <<6, 2, 2>>
        /\ Sizes(active) = <<2, 2, 4>>
        /\ IncidenceMatrix = IncidenceTestReference

\* both refine_region calls of test_incidence have been made
IncidenceTestRefinedTwice ==
    /\ <<dim, deg, spans>> = IncidenceTestSpace
    /\ call.op = "refine_region"
    /\ call.earlier = <<IncidenceTestCalls[1]>>
    /\ call.arg = IncidenceTestCalls[2]
    /\ call.marked = [l \in {1} |-> {<<3>>, <<4>>}]
    /\ Len(IncidenceMatrix) = 10

\* C14: numdofs is the number of active functions of all levels together,
\* and numactive lists the number of active functions of each level, in
\* level order
NumdofsCountsActiveFunctions ==
    /\ Len(Numactive) = numlevels
    /\ \A lv \in Levels : Numactive[lv + 1] = Cardinality(actfun[lv])
    /\ Numdofs = Cardinality(UNION {{<<lv, f>> : f \in actfun[lv]} : lv \in Levels})

\* a refined space whose levels hold different numbers of active functions
LevelsOfDifferentSize ==
    /\ call.op \in RefineOps
    /\ numlevels = 3
    /\ Numactive[1] > Numactive[2]
    /\ Numactive[2] < Numactive[3]
    /\ Numdofs = Numactive[1] + Numactive[2] + Numactive[3]

\* the concatenation of a list of vectors
RECURSIVE Concat(_)
Concat(q) == IF q = <<>> THEN <<>> ELSE Head(q) \o Concat(Tail(q))

\* C15: for a vector of length numdofs split_coeffs returns numlevels
\* consecutive segments, one per level and as long as that level has active
\* functions, whose concatenation is the vector; for a vector of any other
\* length it fails
SplitCoeffsSegments ==
    call.op = "split_coeffs" =>
        IF Len(call.x) = Numdofs
        THEN /\ call.status = "returned"
             /\ Len(call.result) = numlevels
             /\ \A lv \in Levels : Len(call.result[lv + 1]) = Cardinality(actfun[lv])
             /\ Concat(call.result) = call.x
        ELSE call.status = "AssertionError"

\* a vector split into three segments that are not empty
SplitIntoThreeSegments ==
    /\ call.op = "split_coeffs"
    /\ call.status = "returned"
    /\ numlevels = 3
    /\ \A lv \in Levels : call.result[lv + 1] # <<>>
    /\ Concat(call.result) = call.x

\* the stored entries of column c of a matrix that are not zero, as
\* (row, numerator) pairs
Column(M, c) ==
    {<<r, M.rows[r][c]>> : r \in {q \in 0..(M.nrows - 1) :
                                     c \in DOMAIN M.rows[q] /\ M.rows[q][c] # 0}}

\* the coefficients, on level lv + 1, of the combination of level-lv functions
\* with the coefficients v, given as (index, numerator) pairs; with truncate
\* the functions of level lv + 1 in left_out are left out
Prolongated(v, lv, left_out) ==
    LET P == LevelProlongation[<<dim, deg, spans, lv>>]
        cols == {pr[1] : pr \in v}
        kept == {i \in 0..(P.nrows - 1) \ left_out[lv + 1] :
                    DOMAIN P.rows[i] \cap cols # {}}
    IN  {<<i, SumSet({<<pr[1], P.rows[i][pr[1]] * pr[2]>> :
                         pr \in {q \in v : q[1] \in DOMAIN P.rows[i]}})>> : i \in kept}

\* the coefficients on the finest level, and their denominator
RECURSIVE OnFinest(_, _, _, _)
OnFinest(v, den, lv, left_out) ==
    IF lv = numlevels - 1 THEN [num |-> v, den |-> den]
    ELSE OnFinest(Prolongated(v, lv, left_out),
                  den * LevelProlongation[<<dim, deg, spans, lv>>].den,
                  lv + 1, left_out)

\* the column of the active function j of level lv: after the columns of the
\* coarser levels, and after the active functions of its level with a
\* smaller raveled index
ColumnOf(lv, j, act_indices) ==
    SumSet({<<l, Cardinality(act_indices[l])>> : l \in 0..(lv - 1)})
        + Cardinality({i \in act_indices[lv] : i < j})

\* C16: the matrix of represent_fine has one row per function of the finest
\* level and numdofs columns; the columns go by level, coarsest first, and
\* within a level by ascending raveled index, each holding the coefficients of
\* its function on the finest level; the column of an active function of the
\* finest level is the unit vector at its index, truncated or not
RepresentFineColumns ==
    call.op = "represent_fine" =>
        /\ call.matrix.nrows = Numbf(numlevels - 1)
        /\ call.matrix.ncols = Numdofs
        /\ LET act_indices == ActiveIndices
               left_out == [lv \in Levels |-> IF call.truncate THEN act_indices[lv] ELSE {}]
           IN  \A lv \in Levels : \A j \in act_indices[lv] :
                   LET v == OnFinest({<<j, 1>>}, 1, lv, left_out)
                       scale == call.matrix.den \div v.den
                       column == Column(call.matrix, ColumnOf(lv, j, act_indices))
                   IN  /\ call.matrix.den = scale * v.den
                       /\ column = {<<pr[1], pr[2] * scale>> :
                                       pr \in {q \in v.num : q[2] # 0}}
                       /\ lv = numlevels - 1 => column = {<<j, call.matrix.den>>}

\* a truncated matrix with columns of three levels, the finest among them
ColumnsOfThreeLevels ==
    /\ call.op = "represent_fine"
    /\ numlevels = 3
    /\ call.truncate
    /\ \A lv \in Levels : actfun[lv] # {}
    /\ call.matrix.ncols = Numdofs

\* the value each cached query has to return: the one computed from the
\* current sets
Fresh ==
    [ravel_actfun |-> ActiveIndices,
     ravel_deactfun |-> DeactivatedIndices,
     ravel_actdeactfun |->
         [lv \in Levels |-> RavelSorted(lv, actfun[lv]) \o RavelSorted(lv, deactfun[lv])],
     index_dirichlet |-> IndexDirichlet,
     ravel_dirichlet |-> RavelDirichlet]

\* C17: after any HSpace.refine each of the cached queries ravel_actfun,
\* ravel_deactfun, ravel_actdeactfun, index_dirichlet and ravel_dirichlet
\* returns the value computed from the current sets
CachedQueriesAreFresh ==
    (nrefines > 0 /\ call.op \in DOMAIN Fresh) =>
        /\ call.status = "returned"
        /\ call.value = Fresh[call.op]

\* the marked mapping names at least one level, only levels the hierarchy
\* had, and only cells of their meshes
ValidMarked(marked, before) ==
    /\ DOMAIN marked # {}
    /\ \A lv \in DOMAIN marked :
          /\ 0 <= lv /\ lv < before.numlevels
          /\ \A c \in marked[lv] : InMesh(lv, c)

\* C18: every call of HMesh.refine, HSpace.refine and refine_region either
\* succeeds or fails with the levels and sets as they were, and a marked
\* mapping that is empty or names a negative level, a level that is not
\* there or a cell outside the mesh fails before anything is changed
RefineIsAtomicAndValidated ==
    call.op \in {"hmesh_refine", "refine", "refine_region"} /\ "before" \in DOMAIN call =>
        /\ call.status # "returned" => Hierarchy = call.before
        /\ ~ValidMarked(call.marked, call.before) =>
               call.status # "returned" /\ Hierarchy = call.before

\* --------------------------------------------------- virtual hierarchy
\* HSpace(self.hmesh.meshes[0].kvs): a new space on the coarse knot vectors
NewSpace ==
    [numlevels |-> 1,
     active |-> [lv \in {0} |-> Cells(0)], deactivated |-> [lv \in {0} |-> {}],
     actfun |-> [lv \in {0} |-> Functions(0)], deactfun |-> [lv \in {0} |-> {}]]

\* out.refine(marked) on the new space, whose disparity is the default
\* np.inf of the constructor: the marks are not graded
VirtualRefine(out, marked) ==
    LET L == Max2(out.numlevels, SetMax(DOMAIN marked) + 2)
        af0 == EnsureLevels(out.actfun, L)
        cellsres == HMeshRefine(L, marked, EnsureLevels(out.active, L),
                                EnsureLevels(out.deactivated, L))
        mf == FunctionsToDeactivate(L, marked, cellsres.active, af0)
        funcs == RefineFunctionsLoop(0, L, mf, cellsres.new_cells, cellsres.active,
                     cellsres.deactivated, af0, EnsureLevels(out.deactfun, L))
    IN  [numlevels |-> L, active |-> cellsres.active,
         deactivated |-> cellsres.deactivated,
         actfun |-> funcs.actfun, deactfun |-> funcs.deactfun]

\* for i in range(level): out.refine({i: self.hmesh.deactivated[i]})
RECURSIVE GetVirtualSpaceLoop(_, _, _)
GetVirtualSpaceLoop(i, level, out) ==
    IF i >= level THEN out
    ELSE GetVirtualSpaceLoop(i + 1, level,
             VirtualRefine(out, [l \in {i} |-> deactivated[i]]))

\* hs.get_virtual_space(level)
GetVirtualSpace(level) ==
    IF ~(0 <= level /\ level < numlevels) THEN Failed
    ELSE Returned(GetVirtualSpaceLoop(0, level, NewSpace))

GetVirtualSpaceCall ==
    /\ call.op = "none"
    /\ \E level \in QueryLevels :
           call' = [op |-> "get_virtual_space", level |-> level] @@ GetVirtualSpace(level)
    /\ UNCHANGED <<dim, deg, spans, disparity, virt, cache, numlevels, numP, active, deactivated,
                   actfun, deactfun, nrefines>>

NextVirtual == Refine \/ RefineRegion \/ GetVirtualSpaceCall \/ Return

SpecVirtual == Init /\ [][NextVirtual]_vars

\* ------------------------------------------- a space and its virtual copy
\* HMesh(self.meshes[0]): a new mesh on the coarse tensor product mesh
NewMesh ==
    [numlevels |-> 1,
     active |-> [lv \in {0} |-> Cells(0)], deactivated |-> [lv \in {0} |-> {}],
     actfun |-> <<>>, deactfun |-> <<>>]

\* out.refine(marked) on a mesh that is not part of a space
VirtualMeshRefine(out, marked) ==
    LET L == Max2(out.numlevels, SetMax(DOMAIN marked) + 2)
        r == HMeshRefine(L, marked, EnsureLevels(out.active, L),
                         EnsureLevels(out.deactivated, L))
    IN  [numlevels |-> L, active |-> r.active, deactivated |-> r.deactivated,
         actfun |-> <<>>, deactfun |-> <<>>]

\* the two objects a caller holds: the space and its virtual hierarchy
Pair == [self |-> Hierarchy, out |-> virt.h]

\* who.refine(marked) for one of the two objects; the sets of marked are
\* copied or read (set(marked.get(lv, [])), marked.get(lv)), never written
RefineOn(pair, who, kind, marked) ==
    [pair EXCEPT ![who] = IF kind = "mesh" THEN VirtualMeshRefine(pair[who], marked)
                          ELSE VirtualRefine(pair[who], marked)]

\* the replay with the space itself as the receiver of refine
RECURSIVE ReplayOnSelf(_, _, _, _)
ReplayOnSelf(i, n, kind, pair) ==
    IF i >= n THEN pair
    ELSE ReplayOnSelf(i + 1, n, kind,
             RefineOn(pair, "self", kind, [l \in {i} |-> pair.self.deactivated[i]]))

\* for i in range(n): out.refine({i: self.deactivated[i]})
RECURSIVE Replay(_, _, _, _)
Replay(i, n, kind, pair) ==
    IF i >= n THEN pair
    ELSE Replay(i + 1, n, kind,
             RefineOn(pair, "out", kind, [l \in {i} |-> pair.self.deactivated[i]]))

\* the two objects after a call, and the record of the call
Shared(pair, kind, r) ==
    /\ numlevels' = pair.self.numlevels
    /\ numP' = StoredP(pair.self.numlevels)
    /\ active' = pair.self.active
    /\ deactivated' = pair.self.deactivated
    /\ actfun' = pair.self.actfun
    /\ deactfun' = pair.self.deactfun
    /\ virt' = [kind |-> kind, h |-> pair.out]
    /\ call' = r @@ [before_self |-> Hierarchy, before_out |-> virt]
    /\ UNCHANGED <<dim, deg, spans, disparity>>

\* virt = hs.get_virtual_space(level)
ShareGetVirtualSpace ==
    /\ call.op = "none"
    /\ \E level \in QueryLevels :
           IF 0 <= level /\ level < numlevels
           THEN Shared(Replay(0, level, "space", [self |-> Hierarchy, out |-> NewSpace]),
                       "space", [op |-> "get_virtual_space", level |-> level] @@ Returned(<<>>))
           ELSE Shared(Pair, virt.kind,
                       [op |-> "get_virtual_space", level |-> level] @@ Failed)
    /\ UNCHANGED <<nrefines, cache>>

\* virt = hs.hmesh.get_virtual_mesh(level)
ShareGetVirtualMesh ==
    /\ call.op = "none"
    /\ \E level \in QueryLevels :
           IF 0 <= level /\ level < numlevels
           THEN Shared(Replay(0, level + 1, "mesh", [self |-> Hierarchy, out |-> NewMesh]),
                       "mesh", [op |-> "get_virtual_mesh", level |-> level] @@ Returned(<<>>))
           ELSE Shared(Pair, virt.kind,
                       [op |-> "get_virtual_mesh", level |-> level] @@ Failed)
    /\ UNCHANGED <<nrefines, cache>>

\* virt.refine({lv: [c]})
ShareRefineVirtual ==
    /\ call.op = "none"
    /\ virt.kind # "none"
    /\ nrefines < MaxRefines
    /\ \E lv \in MarkLevels : \E c \in Cells(lv) :
           LET marked == [l \in {lv} |-> {c}]
           IN  Shared(RefineOn(Pair, "out", virt.kind, marked), virt.kind,
                      [op |-> "virt.refine", marked |-> marked])
    /\ nrefines' = nrefines + 1
    /\ UNCHANGED cache

\* hs.refine({lv: [c]}, truncate)
ShareRefine ==
    /\ call.op = "none"
    /\ nrefines < MaxRefines
    /\ \E lv \in MarkLevels, truncate \in BOOLEAN : \E c \in Cells(lv) :
           LET marked == [l \in {lv} |-> {c}]
               r == HSpaceRefine(marked, truncate)
           IN  Shared([Pair EXCEPT !.self =
                           [numlevels |-> r.numlevels, active |-> r.active,
                            deactivated |-> r.deactivated, actfun |-> r.actfun,
                            deactfun |-> r.deactfun]],
                      virt.kind, [op |-> "refine", marked |-> marked])
    /\ nrefines' = nrefines + 1
    /\ cache' = ClearCache(cache)

InitShare == Init /\ dim = 1

NextShare ==
    \/ ShareGetVirtualSpace
    \/ ShareGetVirtualMesh
    \/ ShareRefineVirtual
    \/ ShareRefine
    \/ Return

SpecShare == InitShare /\ [][NextShare]_vars

\* -------------------------------------------------------- adding levels
NextLevels == RefineActiveCell \/ EnsureLevelsCall \/ Return

SpecLevels == InitCache /\ [][NextLevels]_vars

\* ------------------------------------ the space and its classifications
\* the value of the property index_dirichlet, computed if it is not cached
CachedIndexDirichlet ==
    IF cache.index_dirichlet = None THEN IndexDirichlet ELSE cache.index_dirichlet.value

\* the caches once the property index_dirichlet has been read
IndexDirichletRead == IF cache.index_dirichlet = None THEN DirichletIndices ELSE cache

\* hs.new_indices()
NewIndicesCall ==
    /\ call.op = "none"
    /\ Queried("new_indices", "returned", NewIndices(CachedIndexDirichlet),
               IndexDirichletRead)

\* hs.trunc_indices()
TruncIndicesCall ==
    /\ call.op = "none"
    /\ Queried("trunc_indices", "returned", TruncIndices(CachedIndexDirichlet),
               IndexDirichletRead)

\* hs.func_supp_indices()
FuncSuppIndicesCall ==
    /\ call.op = "none"
    /\ Queried("func_supp_indices", "returned", FuncSuppIndices(CachedIndexDirichlet),
               IndexDirichletRead)

\* hs.cell_supp_indices()
CellSuppIndicesCall ==
    /\ call.op = "none"
    /\ Queried("cell_supp_indices", "returned", CellSuppIndices(CachedIndexDirichlet),
               IndexDirichletRead)

\* hs.global_indices()
GlobalIndicesCall ==
    /\ call.op = "none"
    /\ Queried("global_indices", "returned", GlobalIndices, cache)

\* hs.refine(marked, truncate) with one cell marked, active or not
RefineCell ==
    /\ call.op = "none"
    /\ nrefines < MaxRefines
    /\ \E lv \in MarkLevels, truncate \in BOOLEAN :
           \E c \in Cells(lv) :
               Refined("refine", [l \in {lv} |-> {c}], truncate)

NextIndex ==
    \/ RefineCell
    \/ RefineRegion
    \/ IndexDirichletGet
    \/ NewIndicesCall
    \/ TruncIndicesCall
    \/ FuncSuppIndicesCall
    \/ CellSuppIndicesCall
    \/ GlobalIndicesCall
    \/ Return

SpecIndex == Init /\ [][NextIndex]_vars

\* ------------------------------------------------ what the queries write
\* the object an in-place statement updates: a set the method has built
\* itself, or the set of one level of one of the four lists of the hierarchy
NewSet == [of |-> "new"]
OwnSet(field, lv) == [of |-> field, lv |-> lv]

\* the hierarchy h after an in-place statement has left value in target
Store(h, target, value) ==
    IF target.of = "new" THEN h
    ELSE [h EXCEPT ![target.of] = Put(@, target.lv, value)]

\* the hierarchy h after a sequence of in-place statements
RECURSIVE Stores(_, _)
Stores(h, writes) ==
    IF writes = <<>> THEN h
    ELSE Stores(Store(h, Head(writes).target, Head(writes).value), Tail(writes))

\* dirichlet_indices with self.actfun[i] itself as the entry of out_index
OutIndexIsActfun(lv, i) == OwnSet("actfun", i)

\* dirichlet_indices: the entry of out_index[lv] for the level i is the set
\* that self.actfun[i] & TPbindices[i] builds (set() for i > lv)
OutIndexObject(lv, i) == NewSet

\* dirichlet_indices: out_index[lv][lv] |= ... for every lv
DirichletWrites ==
    [k \in 1..numlevels |->
        [target |-> OutIndexObject(k - 1, k - 1), value |-> IndexDirichlet[k - 1][k - 1]]]

\* the property index_dirichlet runs dirichlet_indices when nothing is cached
PropertyWrites == IF cache.index_dirichlet = None THEN DirichletWrites ELSE <<>>

\* trunc_indices: aux_dict[i][j] is the set built from function_children
AuxDictObject(i, j) == NewSet

\* trunc_indices: aux_dict[i][j] -= ... for lv, i and j in the order of the loops
TruncWrites ==
    Concat([a \in 1..numlevels |->
        Concat([b \in 1..numlevels |->
            IF InWindow(a - 1, b - 1)
            THEN LET rep == actfun[a - 1] \cup deactfun[a - 1]
                     js == Sorted({j \in actfun[b - 1] :
                                      AuxChildren(b - 1, a - 1, j) \cap rep # {}})
                 IN  [k \in 1..Len(js) |->
                         [target |-> AuxDictObject(b - 1, js[k]),
                          value |-> AuxChildren(b - 1, a - 1, js[k]) \ rep]]
            ELSE <<>>])])

\* _TP_to_HMesh_cells_up and _down: aux_cells is set(cells.copy()) and then
\* the set built from cell_children or cell_parent
AuxCellsObject == NewSet

\* _TP_to_HMesh_cells_up (step 1) and _down (step -1): aux_cells -= ... once
\* per turn of the loop, up to the turn that ends it or repeats for ever
RECURSIVE CellsLoopWrites(_, _, _)
CellsLoopWrites(aux_lv, aux_cells, step) ==
    IF aux_cells = {} THEN <<>>
    ELSE LET rest == aux_cells \ active[aux_lv]
             ok == IF step = 1 THEN CellChildrenOk(aux_lv, numlevels)
                   ELSE CellParentOk(aux_lv, numlevels)
         IN  <<[target |-> AuxCellsObject, value |-> rest]>>
                 \o (IF ok
                     THEN CellsLoopWrites(aux_lv + step,
                              IF step = 1 THEN CellChildren(rest) ELSE CellParent(rest),
                              step)
                     ELSE <<>>)

\* HMesh_cells: the statements of both loops for every allocated key of marked
HMeshCellsWrites(marked) ==
    LET keys == SortedInts(DOMAIN marked)
    IN  Concat([k \in 1..Len(keys) |->
            LET lv == keys[k]
            IN  IF 0 <= lv /\ lv < numlevels
                THEN LET represented == active[lv] \cup deactivated[lv]
                     IN  CellsLoopWrites(lv, marked[lv] \cap represented, 1)
                             \o CellsLoopWrites(lv, marked[lv] \ represented, -1)
                ELSE <<>>])

\* compute_cells: the space after get_virtual_space(lv) for lv = from, ..,
\* numlevels - 1; HMesh_cells then runs on the mesh of the virtual space
RECURSIVE ComputeCellsLoop(_, _)
ComputeCellsLoop(from, h) ==
    IF from >= h.numlevels THEN h
    ELSE ComputeCellsLoop(from + 1,
             Replay(0, from, "space", [self |-> h, out |-> NewSpace]).self)

\* the queries without an in-place statement and without an assignment to
\* an attribute
ReadOnly ==
    {"cell_children", "cell_babys", "cell_parent", "cell_grandparent",
     "function_children", "function_babys", "function_parents",
     "function_grandparents", "cell_support_extension",
     "function_support_extension", "represent_fine", "split_coeffs",
     "global_indices"}

\* the classifications that read the property index_dirichlet and update
\* nothing else in place
ThroughProperty == {"new_indices", "func_supp_indices", "cell_supp_indices"}

\* the space after a query, and the record of the space before it
Framed(op, h, newcache) ==
    /\ numlevels' = h.numlevels
    /\ numP' = StoredP(h.numlevels)
    /\ active' = h.active
    /\ deactivated' = h.deactivated
    /\ actfun' = h.actfun
    /\ deactfun' = h.deactfun
    /\ cache' = newcache
    /\ call' = [op |-> op, before |-> Hierarchy]
    /\ UNCHANGED <<dim, deg, spans, disparity, virt, nrefines>>

\* hs.dirichlet_indices()
FrameDirichletIndices ==
    /\ call.op = "none"
    /\ Framed("dirichlet_indices", Stores(Hierarchy, DirichletWrites), DirichletIndices)

\* hs.new_indices(), hs.func_supp_indices(), hs.cell_supp_indices()
FrameThroughProperty ==
    /\ call.op = "none"
    /\ \E op \in ThroughProperty :
           Framed(op, Stores(Hierarchy, PropertyWrites), IndexDirichletRead)

\* hs.trunc_indices()
FrameTruncIndices ==
    /\ call.op = "none"
    /\ Framed("trunc_indices", Stores(Hierarchy, PropertyWrites \o TruncWrites),
              IndexDirichletRead)

\* hs.hmesh.HMesh_cells(marked)
FrameHMeshCells ==
    /\ call.op = "none"
    /\ \E marked \in RequestDicts[dim] :
           Framed("HMesh_cells", Stores(Hierarchy, HMeshCellsWrites(marked)), cache)

\* hs.compute_cells(tuplelistset) with one entry per level
FrameComputeCells ==
    /\ call.op = "none"
    /\ Framed("compute_cells", ComputeCellsLoop(0, Hierarchy), cache)

\* one of the queries that update nothing in place
FrameReadOnly ==
    /\ call.op = "none"
    /\ \E op \in ReadOnly : Framed(op, Stores(Hierarchy, <<>>), cache)

NextFrame ==
    \/ RefineCell
    \/ RefineRegion
    \/ FrameDirichletIndices
    \/ FrameThroughProperty
    \/ FrameTruncIndices
    \/ FrameHMeshCells
    \/ FrameComputeCells
    \/ FrameReadOnly
    \/ Return

SpecFrame == Init /\ [][NextFrame]_vars

\* ------------------------------------- mlmatrix: sequential and multi-indices
\* the longest dims vector and the most matrix levels
MaxLen == 2
\* the largest entry of a dims vector
MaxSize == 3
\* the largest number of block rows or block columns of a matrix level
MaxBlock == 2

\* the product of the entries of a sequence
RECURSIVE ProdSeq(_)
ProdSeq(q) == IF q = <<>> THEN 1 ELSE Head(q) * ProdSeq(Tail(q))

\* from_seq with the loop running over range(L) instead of reversed(range(L))
RECURSIVE FromSeqForward(_, _, _, _)
FromSeqForward(k, i, dims, I) ==
    IF k = 0 THEN I
    ELSE LET at == Len(dims) + 1 - k
         IN  FromSeqForward(k - 1, i \div dims[at], dims, [I EXCEPT ![at] = i % dims[at]])

\* from_seq: the loop for k in reversed(range(L)), k counted from 1
RECURSIVE FromSeqLoop(_, _, _, _)
FromSeqLoop(k, i, dims, I) ==
    IF k = 0 THEN I
    ELSE FromSeqLoop(k - 1, i \div dims[k], dims, [I EXCEPT ![k] = i % dims[k]])

\* from_seq(i, dims)
FromSeq(i, dims) == FromSeqLoop(Len(dims), i, dims, [k \in 1..Len(dims) |-> 0])

\* to_seq: the loop for k in range(len(dims)), k counted from 1
RECURSIVE ToSeqLoop(_, _, _, _)
ToSeqLoop(k, i, I, dims) ==
    IF k > Len(dims) THEN i ELSE ToSeqLoop(k + 1, i * dims[k] + I[k], I, dims)

\* to_seq(I, dims)
ToSeq(I, dims) == ToSeqLoop(1, 0, I, dims)

\* bs[:, m] for the array bs of shape L x 2, m counted from 1
BsColumn(bs, m) == [k \in 1..Len(bs) |-> bs[k][m]]

\* reindex_to_multilevel(i, j, bs)
ReindexToMultilevel(i, j, bs) ==
    LET I == FromSeq(i, BsColumn(bs, 1))
        J == FromSeq(j, BsColumn(bs, 2))
    IN  [k \in 1..Len(bs) |-> ToSeq(<<I[k], J[k]>>, bs[k])]

\* reindex_from_multilevel(M, bs)
ReindexFromMultilevel(M, bs) ==
    LET IJ == [k \in 1..Len(M) |-> FromSeq(M[k], bs[k])]
    IN  [m \in 1..2 |-> ToSeq(BsColumn(IJ, m), BsColumn(bs, m))]

\* the dims vectors and the block sizes a caller passes
DimsVectors == UNION {[1..L -> 1..MaxSize] : L \in 0..MaxLen}
BlockSizes == UNION {[1..L -> (1..MaxBlock) \X (1..MaxBlock)] : L \in 1..MaxLen}

\* the multi-indices in the range of dims
MultiIndices(dims) == Product([k \in 1..Len(dims) |-> 0..(dims[k] - 1)])

\* a caller holds a dims vector or an array of block sizes
InitSeq ==
    /\ dim = 1
    /\ deg = 1
    /\ spans = CoarseSpans(dim)
    /\ disparity = Inf
    /\ numlevels = 1
    /\ active = [lv \in {0} |-> Cells(0)]
    /\ deactivated = [lv \in {0} |-> {}]
    /\ actfun = [lv \in {0} |-> Functions(0)]
    /\ deactfun = [lv \in {0} |-> {}]
    /\ nrefines = 0
    /\ cache = NoCache
    /\ virt = NoVirtual
    /\ numP = 0
    /\ call \in {[op |-> "dims", dims |-> dims] : dims \in DimsVectors}
                \cup {[op |-> "bs", bs |-> bs] : bs \in BlockSizes}

\* the functions of mlmatrix read and write nothing of a space
Applied(r) ==
    /\ call' = r
    /\ UNCHANGED <<dim, deg, spans, disparity, virt, cache, numlevels, numP, active,
                   deactivated, actfun, deactfun, nrefines>>

\* from_seq(i, dims)
FromSeqCall ==
    /\ call.op = "dims"
    /\ \E i \in 0..(ProdSeq(call.dims) - 1) :
           Applied([op |-> "from_seq", dims |-> call.dims, i |-> i,
                    value |-> FromSeq(i, call.dims)])

\* to_seq(I, dims)
ToSeqCall ==
    /\ call.op = "dims"
    /\ \E I \in MultiIndices(call.dims) :
           Applied([op |-> "to_seq", dims |-> call.dims, I |-> I,
                    value |-> ToSeq(I, call.dims)])

\* to_seq(from_seq(i, dims), dims)
ToSeqOfFromSeq ==
    /\ call.op = "from_seq"
    /\ Applied([op |-> "to_seq(from_seq)", dims |-> call.dims, i |-> call.i,
                I |-> call.value, value |-> ToSeq(call.value, call.dims)])

\* from_seq(to_seq(I, dims), dims)
FromSeqOfToSeq ==
    /\ call.op = "to_seq"
    /\ Applied([op |-> "from_seq(to_seq)", dims |-> call.dims, I |-> call.I,
                i |-> call.value, value |-> FromSeq(call.value, call.dims)])

\* reindex_to_multilevel(i, j, bs)
ReindexToMultilevelCall ==
    /\ call.op = "bs"
    /\ \E i \in 0..(ProdSeq(BsColumn(call.bs, 1)) - 1),
          j \in 0..(ProdSeq(BsColumn(call.bs, 2)) - 1) :
           Applied([op |-> "reindex_to_multilevel", bs |-> call.bs, i |-> i, j |-> j,
                    value |-> ReindexToMultilevel(i, j, call.bs)])

\* reindex_from_multilevel(M, bs)
ReindexFromMultilevelCall ==
    /\ call.op = "bs"
    /\ \E M \in MultiIndices([k \in 1..Len(call.bs) |-> call.bs[k][1] * call.bs[k][2]]) :
           Applied([op |-> "reindex_from_multilevel", bs |-> call.bs, M |-> M,
                    value |-> ReindexFromMultilevel(M, call.bs)])

\* reindex_from_multilevel(reindex_to_multilevel(i, j, bs), bs)
ReindexFromOfTo ==
    /\ call.op = "reindex_to_multilevel"
    /\ Applied([op |-> "reindex_from_multilevel(reindex_to_multilevel)",
                bs |-> call.bs, i |-> call.i, j |-> call.j, M |-> call.value,
                value |-> ReindexFromMultilevel(call.value, call.bs)])

\* reindex_to_multilevel(*reindex_from_multilevel(M, bs), bs)
ReindexToOfFrom ==
    /\ call.op = "reindex_from_multilevel"
    /\ Applied([op |-> "reindex_to_multilevel(reindex_from_multilevel)",
                bs |-> call.bs, M |-> call.M, ij |-> call.value,
                value |-> ReindexToMultilevel(call.value[1], call.value[2], call.bs)])

NextSeq ==
    \/ FromSeqCall
    \/ ToSeqCall
    \/ ToSeqOfFromSeq
    \/ FromSeqOfToSeq
    \/ ReindexToMultilevelCall
    \/ ReindexFromMultilevelCall
    \/ ReindexFromOfTo
    \/ ReindexToOfFrom

SpecSeq == InitSeq /\ [][NextSeq]_vars

\* ------------------------------------------------ the grading, step by step
\* the recursion limit of the interpreter, in frames of _mark_recursive
MaxDepth == 6

\* the finite disparities a space is built with
FiniteDisparities == {0, 1, 2}

\* the one-dimensional spaces
GradeSpaces == {<<1, p, CoarseSpans(1)>> : p \in Degrees} \cup {IncidenceTestSpace}

\* the levels a marked dict names here
GradeLevels == MarkLevels \cup {SetMax(MarkLevels) + 1}

\* the calls of refine: a cell of level 2 is active after two calls at the
\* earliest
GradeRefines == MaxRefines + 1

\* the assertion of cell_support_extension(l, cells, k)
CellSupportExtensionOk(l, k) == 0 <= k /\ k <= l

\* _cell_neighborhood(l, cells, truncate) raises AssertionError
CellNeighborhoodFails(l, truncate) ==
    /\ l - disparity >= 0
    /\ IF truncate
       THEN \/ ~CellSupportExtensionOk(l, l - disparity + 1)
            \/ ~CellParentOk(l - disparity + 1, numlevels)
       ELSE ~CellSupportExtensionOk(l, l - disparity)

\* the frame of _mark_recursive that is running
Frame(l, at, marked, truncate, depth) ==
    [call EXCEPT !.l = l, !.at = at, !.graded = marked, !.now = truncate,
                 !.depth = depth]

\* a step of a refine call that has not returned changes the call only
Stepped(r) ==
    /\ call' = r
    /\ UNCHANGED <<dim, deg, spans, disparity, virt, cache, numlevels, numP, active,
                   deactivated, actfun, deactfun, nrefines>>

\* hs.refine(marked, truncate) with one active cell marked, up to the first
\* call of _mark_recursive: _ensure_levels, marked.copy() and l = 0
RefineEnters ==
    /\ call.op = "none"
    /\ nrefines < GradeRefines
    /\ \E lv \in GradeLevels, truncate \in BOOLEAN :
         \E c \in Get(active, lv) :
           LET marked == [l \in {lv} |-> {c}]
               h == EnsureLevelsLoop(Hierarchy @@ [P |-> numP], SetMax(DOMAIN marked) + 2)
           IN  /\ numlevels' = h.numlevels
               /\ numP' = h.P
               /\ active' = h.active
               /\ deactivated' = h.deactivated
               /\ actfun' = h.actfun
               /\ deactfun' = h.deactfun
               /\ call' = [op |-> "_mark_recursive", marked |-> marked,
                           truncate |-> truncate, l |-> 0, at |-> 0,
                           graded |-> marked, now |-> truncate, depth |-> 1]
    /\ nrefines' = nrefines + 1
    /\ UNCHANGED <<dim, deg, spans, disparity, virt, cache>>

\* _mark_recursive finds neighbors and calls itself on the level
\* at - disparity, without truncate; a call beyond the recursion limit
\* raises RecursionError
MarkRecursiveCalls ==
    /\ call.op = "_mark_recursive"
    /\ ~CellNeighborhoodFails(call.at, call.now)
    /\ LET neighbors == CellNeighborhood(call.at, Get(call.graded, call.at), call.now, active)
           to == call.at - disparity
       IN  /\ neighbors # {}
           /\ IF call.depth < MaxDepth
              THEN Stepped(Frame(call.l, to,
                               Put(call.graded, to, Get(call.graded, to) \cup neighbors),
                               FALSE, call.depth + 1))
              ELSE Stepped([call EXCEPT !.op = "RecursionError"])

\* _mark_recursive finds no neighbors: every frame returns, and the loop of
\* refine calls _mark_recursive for the next level
MarkRecursiveReturns ==
    /\ call.op = "_mark_recursive"
    /\ ~CellNeighborhoodFails(call.at, call.now)
    /\ CellNeighborhood(call.at, Get(call.graded, call.at), call.now, active) = {}
    /\ call.l + 1 < numlevels
    /\ Stepped(Frame(call.l + 1, call.l + 1, call.graded, call.truncate, 1))

\* _cell_neighborhood fails an assertion, and refine with it
MarkRecursiveFails ==
    /\ call.op = "_mark_recursive"
    /\ CellNeighborhoodFails(call.at, call.now)
    /\ Stepped([call EXCEPT !.op = "AssertionError"])

\* the last _mark_recursive of the loop returns; the rest of refine:
\* hmesh.refine(marked), the functions, _clear_cache
RefineGraded ==
    /\ call.op = "_mark_recursive"
    /\ ~CellNeighborhoodFails(call.at, call.now)
    /\ CellNeighborhood(call.at, Get(call.graded, call.at), call.now, active) = {}
    /\ call.l + 1 >= numlevels
    /\ LET cellsres == HMeshRefine(numlevels, call.graded, active, deactivated)
           mf == FunctionsToDeactivate(numlevels, call.graded, cellsres.active, actfun)
           funcs == RefineFunctionsLoop(0, numlevels, mf, cellsres.new_cells,
                        cellsres.active, cellsres.deactivated, actfun, deactfun)
       IN  /\ active' = cellsres.active
           /\ deactivated' = cellsres.deactivated
           /\ actfun' = funcs.actfun
           /\ deactfun' = funcs.deactfun
           /\ call' = [op |-> "refine", marked |-> call.marked,
                       truncate |-> call.truncate, graded |-> call.graded,
                       before |-> Hierarchy]
    /\ cache' = ClearCache(cache)
    /\ UNCHANGED <<dim, deg, spans, disparity, virt, numlevels, numP, nrefines>>

\* refine has returned or raised
RefineLeaves ==
    /\ call.op \in {"refine", "AssertionError", "RecursionError"}
    /\ call' = NoCall
    /\ UNCHANGED <<dim, deg, spans, disparity, virt, cache, numlevels, numP, active,
                   deactivated, actfun, deactfun, nrefines>>

\* a one-dimensional space with a finite disparity
InitGrade ==
    /\ \E sp \in GradeSpaces :
           dim = sp[1] /\ deg = sp[2] /\ spans = sp[3]
    /\ disparity \in FiniteDisparities
    /\ numlevels = 1
    /\ active = [lv \in {0} |-> Cells(0)]
    /\ deactivated = [lv \in {0} |-> {}]
    /\ actfun = [lv \in {0} |-> Functions(0)]
    /\ deactfun = [lv \in {0} |-> {}]
    /\ nrefines = 0
    /\ cache = NoCache
    /\ virt = NoVirtual
    /\ numP = 0
    /\ call = NoCall

NextGrade ==
    \/ RefineEnters
    \/ MarkRecursiveCalls
    \/ MarkRecursiveReturns
    \/ MarkRecursiveFails
    \/ RefineGraded
    \/ RefineLeaves

SpecGrade == InitGrade /\ [][NextGrade]_vars

\* the interpreter goes on with a call that has not returned
FairGrade ==
    /\ SpecGrade
    /\ WF_vars(MarkRecursiveCalls)
    /\ WF_vars(MarkRecursiveReturns)
    /\ WF_vars(MarkRecursiveFails)
    /\ WF_vars(RefineGraded)

\* ------------------------------------------------ the smoother's positions
\* _ravel_indices on a list of index tuples of level i: np.ravel_multi_index
\* keeps the order of the list
RECURSIVE RavelList(_, _)
RavelList(i, list) ==
    IF list = <<>> THEN <<>>
    ELSE <<RavelMultiIndex(Head(list), KvNumDofs(spans, deg, i), dim)>>
             \o RavelList(i, Tail(list))

\* ravel_new, ravel_trunc, ravel_func_supp, ravel_cell_supp and the value
\* ravel_global computes: [self._ravel_indices(idx) for idx in indices]
RavelClassified(indices) ==
    [lv \in Levels |-> [i \in Levels |-> RavelList(i, indices[lv][i])]]

\* the strategies indices_to_smooth accepts
Strategies == {"dirichlet", "new", "trunc", "func_supp", "cell_supp", "global"}

\* the property ravel_global
RavelGlobal ==
    IF cache.ravel_global = None THEN RavelClassified(GlobalIndices)
    ELSE cache.ravel_global.value

\* eval("self.ravel_" + strategy)
RavelStrategy(strategy) ==
    CASE strategy = "dirichlet" ->
             IF cache.ravel_dirichlet = None THEN RavelDirichlet
             ELSE cache.ravel_dirichlet.value
      [] strategy = "new" -> RavelClassified(NewIndices(CachedIndexDirichlet))
      [] strategy = "trunc" -> RavelClassified(TruncIndices(CachedIndexDirichlet))
      [] strategy = "func_supp" -> RavelClassified(FuncSuppIndices(CachedIndexDirichlet))
      [] strategy = "cell_supp" -> RavelClassified(CellSuppIndices(CachedIndexDirichlet))
      [] strategy = "global" -> RavelGlobal

\* the caches after eval("self.ravel_" + strategy) and self.ravel_global
SmoothRead(strategy) ==
    LET read == CASE strategy = "dirichlet" ->
                         IF cache.ravel_dirichlet = None THEN DirichletIndices ELSE cache
                  [] strategy = "global" -> cache
                  [] OTHER -> IndexDirichletRead
    IN  [read EXCEPT !.ravel_global = Cached(RavelGlobal)]

\* _position_index: the loop over sublist; suplist.index(candidate, aux)
\* searches from the position aux on and raises ValueError when it finds
\* nothing
RECURSIVE PositionIndexLoop(_, _, _, _, _)
PositionIndexLoop(suplist, sublist, k, aux, out) ==
    IF k > Len(sublist) THEN Returned(out)
    ELSE LET found == {q \in aux..(Len(suplist) - 1) : suplist[q + 1] = sublist[k]}
         IN  IF found = {} THEN [status |-> "ValueError"]
             ELSE PositionIndexLoop(suplist, sublist, k + 1, SetMin(found),
                                    Append(out, SetMin(found)))

\* _position_index(suplist, sublist)
PositionIndex(suplist, sublist) == PositionIndexLoop(suplist, sublist, 1, 0, <<>>)

\* indices_to_smooth: the loop over l for one lv, chosen and available being
\* choosen_indices[lv] and available_indices[lv]
RECURSIVE SmoothLoop(_, _, _, _, _)
SmoothLoop(chosen, available, l, n_lv, aux) ==
    IF l = numlevels THEN Returned(aux)
    ELSE LET pos == PositionIndex(available[l], chosen[l])
         IN  IF pos.status # "returned" THEN pos
             ELSE SmoothLoop(chosen, available, l + 1, n_lv + Len(available[l]),
                             aux \o [k \in 1..Len(pos.value) |-> n_lv + pos.value[k]])

\* indices_to_smooth(strategy) for the lists chosen and available
IndicesToSmooth(chosen, available) ==
    LET out == [lv \in Levels |-> SmoothLoop(chosen[lv], available[lv], 0, 0, <<>>)]
    IN  IF \E lv \in Levels : out[lv].status # "returned"
        THEN [status |-> "ValueError"]
        ELSE Returned([lv \in Levels |-> out[lv].value])

\* hs.indices_to_smooth(strategy)
IndicesToSmoothCall ==
    /\ call.op = "none"
    /\ \E strategy \in Strategies :
           LET chosen == RavelStrategy(strategy)
               res == IndicesToSmooth(chosen, RavelGlobal)
           IN  call' = [op |-> "indices_to_smooth", strategy |-> strategy,
                        chosen |-> chosen, available |-> RavelGlobal] @@ res
                   /\ cache' = SmoothRead(strategy)
    /\ UNCHANGED <<dim, deg, spans, disparity, virt, numlevels, numP, active, deactivated,
                   actfun, deactfun, nrefines>>

\* the calls of refine here: a function is activated a second time after
\* three calls at the earliest
SmoothRefines == MaxRefines + 1

\* hs.refine(marked) with one cell marked, active or not
RefineOneCell ==
    /\ call.op = "none"
    /\ nrefines < SmoothRefines
    /\ \E lv \in MarkLevels :
           \E c \in Cells(lv) :
               Refined("refine", [l \in {lv} |-> {c}], FALSE)

NextSmooth == RefineOneCell \/ IndicesToSmoothCall \/ Return

SpecSmooth == Init /\ [][NextSmooth]_vars

\* ------------------------------------------- calls that mark active cells
\* the active cells of the levels a caller marks, as (level, cell) pairs
ActiveLevelCells == UNION {{<<lv, c>> : c \in Get(active, lv)} : lv \in MarkLevels}

\* hs.refine(marked, truncate) with every marked cell active when the call
\* is made
RefineActive ==
    /\ call.op = "none"
    /\ nrefines < MaxRefines
    /\ \E pairs \in KSubsets(ActiveLevelCells, MaxMarked) \ {{}}, truncate \in BOOLEAN :
           Refined("refine", MarkedOf(pairs), truncate)

NextActive == RefineActive \/ RefineRegion \/ Return

SpecActive == Init /\ [][NextActive]_vars

\* --------------------------------------------------- refine_region alone
NextRegion == RefineRegion \/ Return

SpecRegion == Init /\ [][NextRegion]_vars

\* C19: cell_children fails unless 0 <= lv < numlevels - 1, cell_parent
\* unless 1 <= lv < numlevels, cell_babys for every given target outside
\* lv < target < numlevels, the target 0 included, and cell_grandparent for
\* every given target outside 0 <= target < lv
CellQueriesCheckTheirLevels ==
    /\ (call.op = "cell_children" /\ ~(0 <= call.lv /\ call.lv < numlevels - 1)) =>
           call.status = "AssertionError"
    /\ (call.op = "cell_parent" /\ ~(1 <= call.lv /\ call.lv < numlevels)) =>
           call.status = "AssertionError"
    /\ (/\ call.op = "cell_babys"
        /\ call.targetlv # <<>>
        /\ ~(call.lv < call.targetlv[1] /\ call.targetlv[1] < numlevels)) =>
           call.status = "AssertionError"
    /\ (/\ call.op = "cell_grandparent"
        /\ call.targetlv # <<>>
        /\ ~(0 <= call.targetlv[1] /\ call.targetlv[1] < call.lv)) =>
           call.status = "AssertionError"

\* C20: get_virtual_space(lv) is the hierarchy cut at level lv: it has lv + 1
\* levels, below lv its active and deactivated cells and functions are the
\* ones of the space, and on level lv every active or deactivated cell and
\* function of the space is active and nothing is deactivated
VirtualSpaceIsTheCutHierarchy ==
    (call.op = "get_virtual_space" /\ call.status = "returned") =>
        LET out == call.value
            lv == call.level
        IN  /\ out.numlevels = lv + 1
            /\ \A i \in 0..(lv - 1) :
                   /\ out.active[i] = active[i]
                   /\ out.deactivated[i] = deactivated[i]
                   /\ out.actfun[i] = actfun[i]
                   /\ out.deactfun[i] = deactfun[i]
            /\ out.active[lv] = active[lv] \cup deactivated[lv]
            /\ out.actfun[lv] = actfun[lv] \cup deactfun[lv]
            /\ out.deactivated[lv] = {}
            /\ out.deactfun[lv] = {}

\* C21: a virtual hierarchy shares no set with the space: get_virtual_space
\* and get_virtual_mesh leave the sets of the space as they were, a refine of
\* the virtual hierarchy changes no set of the space, and a refine of the
\* space changes no set of the virtual hierarchy
VirtualSharesNoSet ==
    /\ call.op \in {"get_virtual_space", "get_virtual_mesh", "virt.refine"} =>
           /\ active = call.before_self.active
           /\ deactivated = call.before_self.deactivated
           /\ actfun = call.before_self.actfun
           /\ deactfun = call.before_self.deactfun
    /\ call.op = "refine" /\ "before_out" \in DOMAIN call => virt = call.before_out

\* the virtual hierarchy of a refined space has been refined itself and is
\* no longer the hierarchy of the space
BothRefined ==
    /\ call.op = "virt.refine"
    /\ virt # call.before_out
    /\ numlevels > 1
    /\ virt.h.active # active

\* the sets of one kind keep what they represent: on every level the union
\* of the two sets does not shrink, no element leaves the deactivated set,
\* and no deactivated element is active afterwards
Reclassified(act, deact, act_after, deact_after) ==
    \A lv \in DOMAIN act :
        /\ lv \in DOMAIN act_after
        /\ (act[lv] \cup deact[lv]) \subseteq (act_after[lv] \cup deact_after[lv])
        /\ deact[lv] \subseteq deact_after[lv]
        /\ deact[lv] \cap act_after[lv] = {}

\* C23: across refine calls nothing is deleted, only reclassified: the
\* represented cells and functions of a level never shrink, the number of
\* levels never decreases, and a deactivated cell or function stays
\* deactivated and never becomes active again
NothingIsDeleted ==
    [][/\ numlevels' >= numlevels
       /\ Reclassified(active, deactivated, active', deactivated')
       /\ Reclassified(actfun, deactfun, actfun', deactfun')]_vars

\* C24: _ensure_levels(L) leaves max(levels before, L) levels; with L
\* levels or more before the call it changes nothing; the levels it appends
\* have no active and no deactivated cell or function; one prolongation
\* tuple is stored per pair of consecutive levels; and the sets of the levels
\* that existed are the same
EnsureLevelsAppendsEmptyLevels ==
    call.op = "_ensure_levels" =>
        LET before == call.before
        IN  /\ numlevels = Max2(before.numlevels, call.L)
            /\ before.numlevels >= call.L => Hierarchy @@ [P |-> numP] = before
            /\ \A lv \in before.numlevels..(numlevels - 1) :
                   /\ active[lv] = {} /\ deactivated[lv] = {}
                   /\ actfun[lv] = {} /\ deactfun[lv] = {}
            /\ numP = numlevels - 1
            /\ \A lv \in 0..(before.numlevels - 1) :
                   /\ active[lv] = before.active[lv]
                   /\ deactivated[lv] = before.deactivated[lv]
                   /\ actfun[lv] = before.actfun[lv]
                   /\ deactfun[lv] = before.deactfun[lv]

\* a level has been appended to a refined hierarchy
LevelAppended ==
    /\ call.op = "_ensure_levels"
    /\ numlevels = call.before.numlevels + 1
    /\ deactivated[0] # {}

\* the functions a list of index tuples names
Range(list) == {list[k] : k \in DOMAIN list}

\* the classifications that subtract the dirichlet functions
Subtracting == {"new_indices", "trunc_indices", "func_supp_indices", "cell_supp_indices"}

\* C25 as stated: for every classification other than dirichlet, global
\* included, no list of a virtual level lv and a contributing level i names
\* a function of index_dirichlet[lv][i]
NoClassificationNamesDirichlet ==
    call.op \in Subtracting \cup {"global_indices"} =>
        \A lv \in Levels : \A i \in Levels :
            Range(call.value[lv][i]) \cap IndexDirichlet[lv][i] = {}

\* C25: for the classifications new, trunc, func_supp and cell_supp, no list
\* of a virtual level lv and a contributing level i names a function of
\* index_dirichlet[lv][i]
SubtractingNamesNoDirichlet ==
    call.op \in Subtracting =>
        \A lv \in Levels : \A i \in Levels :
            Range(call.value[lv][i]) \cap IndexDirichlet[lv][i] = {}

\* trunc_indices has run on three levels where a coarser level has
\* dirichlet functions and names functions for a finer virtual level
TruncWithDirichlet ==
    /\ call.op = "trunc_indices"
    /\ numlevels = 3
    /\ \E lv \in Levels : \E i \in Levels :
           i < lv /\ call.value[lv][i] # <<>> /\ IndexDirichlet[lv][i] # {}

\* the function f of level i lies on one of the boundary facets of the space
OnFacet(i, f) ==
    \E bdspec \in BdSpecs :
        f[bdspec[1] + 1] = IF bdspec[2] = 0 THEN 0 ELSE KvNumDofs(spans, deg, i) - 1

\* C26: index_dirichlet[lv][i] is the set of the functions on a boundary
\* facet that are active on level i when i < lv and active or deactivated on
\* level i when i = lv; it is empty when i > lv
DirichletIsTheBoundaryFunctions ==
    call.op = "index_dirichlet" =>
        \A lv \in Levels : \A i \in Levels :
            call.value[lv][i] =
                {f \in Functions(i) :
                    /\ OnFacet(i, f)
                    /\ IF i < lv THEN f \in actfun[i]
                       ELSE IF i = lv THEN f \in actfun[i] \cup deactfun[i]
                       ELSE FALSE}

\* index_dirichlet has been read on three levels where a boundary function of
\* level 1 is deactivated and another one is active
DeactivatedOnTheBoundary ==
    /\ call.op = "index_dirichlet"
    /\ numlevels = 3
    /\ call.value[1][1] \cap deactfun[1] # {}
    /\ call.value[2][1] # {}
    /\ call.value[1][2] = {}

\* the entries first..last of the list are the functions of S, each once, in
\* lexicographic order
ListsInOrder(list, first, last, S) ==
    /\ {list[k] : k \in first..last} = S
    /\ \A k \in first..(last - 1) : LexLess(list[k], list[k + 1])

\* C27: new_indices()[lv][i] is empty for i # lv; new_indices()[lv][lv] is
\* the list of the active functions of level lv off the boundary facets in
\* lexicographic order, followed by the deactivated functions of level lv off
\* the boundary facets in lexicographic order
NewListsActiveThenDeactivated ==
    call.op = "new_indices" =>
        \A lv \in Levels :
            /\ \A i \in Levels \ {lv} : call.value[lv][i] = <<>>
            /\ LET list == call.value[lv][lv]
                   act == {f \in actfun[lv] : ~OnFacet(lv, f)}
               IN  /\ Len(list) >= Cardinality(act)
                   /\ ListsInOrder(list, 1, Cardinality(act), act)
                   /\ ListsInOrder(list, Cardinality(act) + 1, Len(list),
                                   {f \in deactfun[lv] : ~OnFacet(lv, f)})

\* new_indices has listed, for one level, two active functions followed by
\* two deactivated ones, the first deactivated one before the last active one
\* in lexicographic order
NewListedBoth ==
    /\ call.op = "new_indices"
    /\ \E lv \in Levels :
           LET list == call.value[lv][lv]
           IN  /\ Len(list) >= 4
               /\ \E n \in 2..(Len(list) - 2) :
                      /\ list[n] \in actfun[lv]
                      /\ list[n + 1] \in deactfun[lv]
                      /\ LexLess(list[n + 1], list[n])

\* the functions active or deactivated on level lv
Represented(lv) == actfun[lv] \cup deactfun[lv]

\* from the function f of level k a chain of prolongation children leads to
\* a function active or deactivated on level lv
RECURSIVE Reaches(_, _, _)
Reaches(k, f, lv) ==
    IF k = lv THEN f \in Represented(lv)
    ELSE \E g \in FunctionChildren(k, {f}) : Reaches(k + 1, g, lv)

\* the same with a chain that passes, between its ends, through no function
\* active or deactivated on its own level
RECURSIVE Survives(_, _, _)
Survives(k, f, lv) ==
    IF k = lv THEN f \in Represented(lv)
    ELSE \E g \in FunctionChildren(k, {f}) :
             /\ k + 1 < lv => g \notin Represented(k + 1)
             /\ Survives(k + 1, g, lv)

\* C28 as stated: trunc_indices()[lv][i], for i in the disparity window of lv,
\* names the active functions of level i off the boundary facets from which a
\* chain of prolongation children leads to a function active or deactivated
\* on level lv
TruncFollowsEveryChain ==
    call.op = "trunc_indices" =>
        \A lv \in Levels : \A i \in Levels :
            InWindow(lv, i) =>
                Range(call.value[lv][i]) =
                    {j \in actfun[i] : ~OnFacet(i, j) /\ Reaches(i, j, lv)}

\* C28: trunc_indices()[lv][i], for i in the disparity window of lv, names
\* the active functions of level i off the boundary facets from which a chain
\* of prolongation children that passes through no function active or
\* deactivated on an intermediate level leads to a function active or
\* deactivated on level lv
TruncFollowsTruncatedChains ==
    call.op = "trunc_indices" =>
        \A lv \in Levels : \A i \in Levels :
            InWindow(lv, i) =>
                Range(call.value[lv][i]) =
                    {j \in actfun[i] : ~OnFacet(i, j) /\ Survives(i, j, lv)}

\* trunc_indices has named a function of level 0 for the virtual level 2 and
\* has dropped for it a function of level 0 it names for the virtual level 1
TruncAcrossTwoLevels ==
    /\ call.op = "trunc_indices"
    /\ numlevels = 3
    /\ InWindow(2, 0)
    /\ call.value[2][0] # <<>>
    /\ Range(call.value[1][0]) \ Range(call.value[2][0]) # {}

\* the classifications restricted to the disparity window
Windowed == {"trunc_indices", "func_supp_indices", "cell_supp_indices"}

\* C29: with a finite disparity d the lists of trunc_indices,
\* func_supp_indices and cell_supp_indices for the virtual level lv are empty
\* for i < lv - d and for i > lv, and for i < lv they name only active
\* functions of level i
WindowedListsStayInTheWindow ==
    call.op \in Windowed /\ disparity # Inf =>
        \A lv \in Levels : \A i \in Levels :
            /\ i < lv - disparity \/ i > lv => call.value[lv][i] = <<>>
            /\ i < lv => Range(call.value[lv][i]) \subseteq actfun[i]

\* with disparity 1 one of the three classifications has run on three levels:
\* it names a function of level 1 for the virtual level 2 and none of
\* level 0, where an active function off the facets has a chain of children
\* to a function active or deactivated on level 2
OutsideTheWindow ==
    /\ call.op \in Windowed
    /\ disparity = 1
    /\ numlevels = 3
    /\ call.value[2][1] # <<>>
    /\ call.value[2][0] = <<>>
    /\ \E j \in actfun[0] : ~OnFacet(0, j) /\ Reaches(0, j, 2)

\* the queries of the space and of its mesh
Queries ==
    ReadOnly \cup ThroughProperty
        \cup {"dirichlet_indices", "trunc_indices", "HMesh_cells", "compute_cells"}

\* C22: a query leaves the number of levels and the sets of active and
\* deactivated cells and functions of every level as they were before it
QueriesLeaveTheHierarchy ==
    call.op \in Queries =>
        /\ numlevels = call.before.numlevels
        /\ active = call.before.active
        /\ deactivated = call.before.deactivated
        /\ actfun = call.before.actfun
        /\ deactfun = call.before.deactfun

\* trunc_indices has run on three levels with nothing cached: it has
\* inserted deactivated functions into the dirichlet sets and has taken
\* functions out of its chains
QueryUpdatedItsOwnSets ==
    /\ call.op = "trunc_indices"
    /\ numlevels = 3
    /\ cache.index_dirichlet # None
    /\ \E lv \in Levels : deactfun[lv] \cap IndexDirichlet[lv][lv] # {}
    /\ TruncWrites # <<>>

\* the number of sequential indices one step of the index k of dims spans
Stride(dims, k) == ProdSeq(SubSeq(dims, k + 1, Len(dims)))

\* C30: to_seq undoes from_seq on 0 <= i < product(dims) and from_seq undoes
\* to_seq on the multi-indices in the range of dims; to_seq numbers the
\* multi-indices lexicographically, the last index running fastest; and
\* reindex_from_multilevel undoes reindex_to_multilevel and the other way
\* round on indices in the range of bs
SeqAndMultilevelRoundTrips ==
    /\ call.op = "to_seq(from_seq)" => call.value = call.i
    /\ call.op = "from_seq(to_seq)" => call.value = call.I
    /\ call.op = "to_seq" =>
           call.value = SumSeq([k \in 1..Len(call.dims) |->
                                   call.I[k] * Stride(call.dims, k)])
    /\ call.op = "reindex_from_multilevel(reindex_to_multilevel)" =>
           call.value = <<call.i, call.j>>
    /\ call.op = "reindex_to_multilevel(reindex_from_multilevel)" =>
           call.value = call.M

\* a pair of sequential indices of a matrix of two levels with blocks that
\* are not square has been taken to its multi-index and back, the indices of
\* both levels being positive
TwoLevelsThereAndBack ==
    /\ call.op = "reindex_from_multilevel(reindex_to_multilevel)"
    /\ Len(call.bs) = 2
    /\ call.bs[1][1] # call.bs[1][2]
    /\ call.bs[2][1] # call.bs[2][2]
    /\ call.M[1] > 0
    /\ call.M[2] > 0
    /\ call.i # call.j

GradingRound(L, marked, truncate, act) ==
    [lv \in 0..(L - 1) |->
        Get(marked, lv) \cup
        (IF lv + disparity < L
         THEN CellNeighborhood(lv + disparity, Get(marked, lv + disparity), truncate, act)
         ELSE {})]

\* the least marking above marked that the rule adds nothing to
RECURSIVE LeastGraded(_, _, _, _)
LeastGraded(L, marked, truncate, act) ==
    LET next == GradingRound(L, marked, truncate, act)
    IN  IF \A lv \in 0..(L - 1) : next[lv] = Get(marked, lv) THEN next
        ELSE LeastGraded(L, next, truncate, act)

\* C32: with a disparity of 1 or more, the marking refine hands to
\* hmesh.refine is, level by level, the least marking above the caller's that
\* is closed under the grading rule with the neighbourhood of the call
\* (truncated when truncate=True) against the active cells of the call
GradedIsLeastClosure ==
    (call.op = "refine" /\ disparity >= 1) =>
        LET least == LeastGraded(numlevels, call.marked, call.truncate, call.before.active)
        IN  \A lv \in 0..(numlevels - 1) : Get(call.graded, lv) = least[lv]

\* the same without truncation
GradedIsLeastClosureUntruncated ==
    (call.op = "refine" /\ disparity >= 1 /\ ~call.truncate) =>
        LET least == LeastGraded(numlevels, call.marked, FALSE, call.before.active)
        IN  \A lv \in 0..(numlevels - 1) : Get(call.graded, lv) = least[lv]

\* the strategies that classify
Classifying == Strategies \ {"global"}

\* sub can be read off sup from left to right
RECURSIVE Subsequence(_, _)
Subsequence(sub, sup) ==
    IF sub = <<>> THEN TRUE
    ELSE IF sup = <<>> THEN FALSE
    ELSE IF Head(sub) = Head(sup) THEN Subsequence(Tail(sub), Tail(sup))
    ELSE Subsequence(sub, Tail(sup))

\* the lists of the levels 0..(l - 1), one after the other
RECURSIVE Before(_, _)
Before(lists, l) == IF l = 0 THEN <<>> ELSE Before(lists, l - 1) \o lists[l - 1]

\* C33: for every strategy that classifies and every pair (lv, i), the raveled
\* list of the strategy is a subsequence of the raveled global list, and
\* indices_to_smooth returns per lv strictly increasing positions, one per
\* chosen index, each pointing at that index in the global lists of lv laid
\* one after the other
SmoothPositionsFound ==
    (call.op = "indices_to_smooth" /\ call.strategy \in Classifying) =>
        /\ \A lv \in Levels, i \in Levels :
               Subsequence(call.chosen[lv][i], call.available[lv][i])
        /\ call.status = "returned"
        /\ \A lv \in Levels :
               LET all == Before(call.available[lv], numlevels)
                   mine == Before(call.chosen[lv], numlevels)
                   pos == call.value[lv]
               IN  /\ Len(pos) = Len(mine)
                   /\ \A k \in 1..Len(pos) :
                          /\ pos[k] \in 0..(Len(all) - 1)
                          /\ all[pos[k] + 1] = mine[k]
                          /\ k > 1 => pos[k - 1] < pos[k]
                   /\ \A i \in Levels :
                          \A k \in 1..Len(call.chosen[lv][i]) :
                              pos[Len(Before(call.chosen[lv], i)) + k]
                                  >= Len(Before(call.available[lv], i))

\* C34: on every level no function is both active and deactivated
FunctionSetsDisjoint ==
    \A lv \in Levels : actfun[lv] \cap deactfun[lv] = {}

\* the functions of level lv whose whole support is represented by cells
Supported(lv) ==
    {f \in Functions(lv) : Support(lv, {f}) \subseteq active[lv] \cup deactivated[lv]}

\* C35: after calls that mark active cells only, the active and deactivated
\* functions of a level are together exactly the functions whose whole
\* support lies in the active and deactivated cells of the level, all
\* functions on level 0, and every active function has an active cell of its
\* level in its support
RepresentedFunctionsFollowCells ==
    \A lv \in Levels :
        /\ actfun[lv] \cup deactfun[lv] = Supported(lv)
        /\ lv = 0 => Supported(lv) = Functions(0)
        /\ \A f \in actfun[lv] : Support(lv, {f}) \cap active[lv] # {}

\* two calls have left a level with active functions, deactivated functions
\* and functions that are not represented
PartlyRepresentedLevel ==
    /\ nrefines = 2
    /\ \E lv \in Levels \ {0} :
           /\ actfun[lv] # {}
           /\ deactfun[lv] # {}
           /\ Functions(lv) \ Supported(lv) # {}

\* C36: every cell a refine_region call marks, the cells its grading adds
\* included, is active when the call is made, and after the call no cell is
\* both active and deactivated and the active cells tile the domain exactly
\* once
RegionMarksActiveCells ==
    [][(call.op = "none" /\ call'.op = "refine_region") =>
          /\ \A lv \in DOMAIN call'.graded : call'.graded[lv] \subseteq Get(active, lv)
          /\ ActiveDeactivatedDisjoint'
          /\ ActiveCellsTileOnce']_vars

\* a refine_region call whose grading has marked cells of a coarser level
RegionGraded ==
    /\ call.op = "refine_region"
    /\ disparity < Inf
    /\ \E lv \in DOMAIN call.graded :
           /\ lv \notin DOMAIN call.marked
           /\ call.graded[lv] # {}

\* C37: the finest level has no deactivated cells and no deactivated
\* functions, every level with a deactivated cell has a next level, and the
\* four per-level lists have numlevels entries each
FinestLevelHasNothingDeactivated ==
    /\ deactivated[numlevels - 1] = {}
    /\ deactfun[numlevels - 1] = {}
    /\ \A lv \in DOMAIN deactivated : deactivated[lv] # {} => numlevels >= lv + 2
    /\ DOMAIN active = Levels
    /\ DOMAIN deactivated = Levels
    /\ DOMAIN actfun = Levels
    /\ DOMAIN deactfun = Levels

\* the level below the finest of three holds deactivated cells and functions
DeactivatedBelowTheFinest ==
    /\ numlevels = 3
    /\ deactivated[1] # {}
    /\ deactfun[1] # {}
    /\ actfun[2] # {}

====
